---------------------------- MODULE Spec2Model ----------------------------
(***************************************************************************)
(* A model of the rotation editor's core: the condition validator and      *)
(* builder (src/conditions.py), the Rotation model (src/core/rotation.py)  *)
(* and the format codec (src/core/exporter.py), with the reference catalog *)
(* of src/spell_data.py.                                                   *)
(*                                                                         *)
(* Text.  A Python str that the code inspects (conditions, notes, author,  *)
(* description, tags) is a sequence of lexemes: every maximal run of       *)
(* [A-Za-z0-9_] is one lexeme and every other character is a lexeme of its *)
(* own, so "player.health > 30" is                                         *)
(*   <<"player", ".", "health", " ", ">", " ", "30">>.                     *)
(* Every substring test, split and prefix test the code makes on such text *)
(* is on punctuation, so it is the same test on the lexeme sequence.       *)
(* Catalog names (classes, specs, spells), which this part of the code     *)
(* only compares whole, are plain strings.                                 *)
(***************************************************************************)
EXTENDS Integers, Sequences, FiniteSets, TLC

VARIABLES
    rotation,         \* the Rotation being edited: [metadata, spells, spec_id]
    call,             \* the last call: its operation, arguments and outcome
    imported,         \* what the last import returned (a Rotation or an error)
    condition_parts,  \* ConditionBuilder.condition_parts
    current_class,    \* ConditionBuilder.current_class
    verdict           \* what the last validate_condition call returned

vars == <<rotation, call, imported, condition_parts, current_class, verdict>>

(***************************************************************************)
(* Bounds of the model.                                                    *)
(***************************************************************************)
MaxSpells == 3        \* entries a Rotation of the editing model holds at most
MaxEdited == 2        \* entries of a Rotation whose entries are updated as well
MaxPriority == 3      \* the largest priority argument a call is given
MaxTime == 2          \* the clock readings are 0..MaxTime
MaxParts == 3         \* parts a ConditionBuilder holds at most
MaxCodecSpells == 2   \* entries of a Rotation handed to the codec
MaxClauses == 2       \* clauses of a condition handed to the validator
MaxImportSpells == 2  \* entries of a text handed to an importer
MaxCopies == 2        \* entries of one name in a Rotation handed to the rotation validator

(***************************************************************************)
(* Python's None.  No text is this value: "<None>" is not a lexeme.        *)
(***************************************************************************)
None == <<"<None>">>

(***************************************************************************)
(* Text helpers: Python str operations on lexeme sequences.                *)
(***************************************************************************)
Whitespace == {" ", "\n"}

\* sub in s
Contains(s, sub) ==
    \E i \in 1..(Len(s) - Len(sub) + 1) : SubSeq(s, i, i + Len(sub) - 1) = sub

\* s.startswith(prefix)
StartsWith(s, prefix) ==
    Len(prefix) <= Len(s) /\ SubSeq(s, 1, Len(prefix)) = prefix

\* s.find(sub), 1-based; 0 when sub is not in s
Find(s, sub) ==
    IF Contains(s, sub)
    THEN CHOOSE i \in 1..(Len(s) - Len(sub) + 1) :
            /\ SubSeq(s, i, i + Len(sub) - 1) = sub
            /\ \A j \in 1..(i - 1) : SubSeq(s, j, j + Len(sub) - 1) # sub
    ELSE 0

\* s.split(sep)[0]
SplitFirst(s, sep) ==
    IF Contains(s, sep) THEN SubSeq(s, 1, Find(s, sep) - 1) ELSE s

\* s.split(sep): the pieces between the occurrences of sep
RECURSIVE Split(_, _)
Split(s, sep) ==
    IF Contains(s, sep)
    THEN <<SubSeq(s, 1, Find(s, sep) - 1)>>
            \o Split(SubSeq(s, Find(s, sep) + Len(sep), Len(s)), sep)
    ELSE <<s>>

\* s.strip()
RECURSIVE strip(_)
strip(s) ==
    IF s # <<>> /\ Head(s) \in Whitespace THEN strip(Tail(s))
    ELSE IF s # <<>> /\ s[Len(s)] \in Whitespace THEN strip(SubSeq(s, 1, Len(s) - 1))
    ELSE s

\* " ".join(parts)
RECURSIVE JoinSpace(_)
JoinSpace(parts) ==
    IF parts = <<>> THEN <<>>
    ELSE IF Len(parts) = 1 THEN parts[1]
    ELSE parts[1] \o <<" ">> \o JoinSpace(Tail(parts))

(***************************************************************************)
(* src/conditions.py: ConditionValidator                                   *)
(***************************************************************************)
(* conditions.py BASIC_CONDITIONS: category -> its recognized keys. *)
BASIC_CONDITIONS ==
  (  <<"player">> :>
       {<<"health">>, <<"health",".","actual">>, <<"health",".","max">>,
        <<"mana">>, <<"rage">>, <<"energy">>, <<"focus">>, <<"runicpower">>,
        <<"holypower">>, <<"chi">>, <<"soulshards">>, <<"eclipse">>,
        <<"combopoints">>, <<"buff">>, <<"buff",".","any">>,
        <<"buff",".","count">>, <<"buff",".","duration">>, <<"debuff">>,
        <<"debuff",".","any">>, <<"debuff",".","count">>,
        <<"debuff",".","duration">>, <<"moving">>, <<"movingfor">>,
        <<"casting">>, <<"casting",".","percent">>, <<"casting",".","delta">>,
        <<"channeling">>, <<"stance">>, <<"form">>, <<"seal">>, <<"lastcast">>,
        <<"level">>, <<"spec">>, <<"talent">>, <<"glyph">>}
  @@ <<"target">> :>
       {<<"health">>, <<"health",".","actual">>, <<"health",".","max">>,
        <<"exists">>, <<"enemy">>, <<"friend">>, <<"name">>, <<"distance">>,
        <<"range">>, <<"debuff">>, <<"debuff",".","any">>,
        <<"debuff",".","count">>, <<"debuff",".","duration">>, <<"casting">>,
        <<"casting",".","percent">>, <<"casting",".","delta">>,
        <<"interruptsat">>, <<"moving">>, <<"level">>, <<"classification">>,
        <<"creatureType">>, <<"boss">>, <<"id">>, <<"threat">>, <<"isplayer">>}
  @@ <<"spell">> :>
       {<<"cooldown">>, <<"charges">>, <<"usable">>, <<"exists">>, <<"range">>,
        <<"casted">>}
  @@ <<"area">> :>
       {<<"enemies">>, <<"friendly">>}
  @@ <<"group">> :>
       {<<"members">>, <<"avghealth">>, <<"raid">>, <<"party">>}
  @@ <<"toggle">> :>
       {<<"cooldowns">>, <<"aoe">>, <<"interrupt">>, <<"custom">>}
  @@ <<"modifier">> :>
       {<<"shift">>, <<"control">>, <<"alt">>, <<"lshift">>, <<"lcontrol">>,
        <<"lalt">>, <<"rshift">>, <<"rcontrol">>, <<"ralt">>} )

(* conditions.py CLASS_CONDITIONS: the per-class tables, keyed by class name. *)
CLASS_CONDITIONS ==
  (  <<"Druid">> :>
       {<<"solar">>, <<"lunar">>, <<"eclipse">>, <<"balance",".","sun">>,
        <<"balance",".","moon">>, <<"mushrooms">>}
  @@ <<"Death"," ","Knight">> :>
       {<<"runes",".","count">>, <<"runes",".","frac">>,
        <<"runes",".","depleted">>}
  @@ <<"Warlock">> :>
       {<<"embers">>, <<"demonicfury">>} )

OPERATORS ==
    << <<">">>, <<"<">>, <<">", "=">>, <<"<", "=">>, <<"=", "=">>, <<"!", "=">>,
       <<"&", "&">>, <<"|", "|">>, <<"!">> >>

\* The characters of valid_chars that are not letters, digits or "_".
ValidPunctuation == {".", "(", ")", "!", "&", "|", "<", ">", "=", " "}

\* The other characters of the model's alphabet; none is in valid_chars.
OtherPunctuation == {"\"", ",", "-", "{", "}", ":", "'"}

check_basic_syntax(condition) ==
    /\ ~Contains(condition, <<" ", " ">>)
    /\ \A i \in 1..Len(condition) : condition[i] \notin OtherPunctuation

invalid_combinations ==
    { <<"&", "&", "&", "&">>, <<"|", "|", "|", "|">>, <<"!", "!">>, <<"<", "<">>,
      <<">", ">">>, <<"=", "=", ">">>, <<"<", "=", "=">> }

\* _validate_operators without the loop over OPERATORS
validate_operators_combinations_only(condition) ==
    \A combo \in invalid_combinations : ~Contains(condition, combo)

validate_operators(condition) ==
    /\ \A combo \in invalid_combinations : ~Contains(condition, combo)
    /\ \A k \in 1..Len(OPERATORS) :
          LET op == OPERATORS[k] IN
          ~( /\ Contains(condition, op)
             /\ ~( \/ Contains(condition, <<" ">> \o op \o <<" ">>)
                   \/ StartsWith(condition, op \o <<" ">>) ) )

\* The stack of "(" is a depth; a ")" on an empty stack fails at once.
RECURSIVE ParenScan(_, _)
ParenScan(s, depth) ==
    IF s = <<>> THEN depth = 0
    ELSE IF Head(s) = "(" THEN ParenScan(Tail(s), depth + 1)
    ELSE IF Head(s) = ")" THEN depth > 0 /\ ParenScan(Tail(s), depth - 1)
    ELSE ParenScan(Tail(s), depth)

validate_parentheses(condition) == ParenScan(condition, 0)

\* A match of \s+(?:&&|\|\|)\s+ starting at position i: the position after it,
\* or 0 when there is none.  \s+ is greedy on both sides.
RECURSIVE SkipSpace(_, _)
SkipSpace(s, i) ==
    IF i <= Len(s) /\ s[i] \in Whitespace THEN SkipSpace(s, i + 1) ELSE i

LogicalMatchEnd(s, i) ==
    LET j == SkipSpace(s, i) IN
    IF /\ j > i
       /\ j + 2 <= Len(s)
       /\ SubSeq(s, j, j + 1) \in { <<"&", "&">>, <<"|", "|">> }
       /\ s[j + 2] \in Whitespace
    THEN SkipSpace(s, j + 2)
    ELSE 0

\* re.split(r'\s+(?:&&|\|\|)\s+', s): cut at the leftmost match, repeat.
RECURSIVE SplitLogical(_)
SplitLogical(s) ==
    LET starts == { i \in 1..Len(s) : LogicalMatchEnd(s, i) # 0 } IN
    IF starts = {} THEN <<s>>
    ELSE LET i == CHOOSE x \in starts : \A y \in starts : x <= y IN
         <<SubSeq(s, 1, i - 1)>>
            \o SplitLogical(SubSeq(s, LogicalMatchEnd(s, i), Len(s)))

\* The base of one component: the leading "!" dropped, then cut before the
\* first "(", ">", "<", "==" and "!=" in turn.
component_base(component) ==
    LET c0 == IF StartsWith(component, <<"!">>) THEN Tail(component) ELSE component
        b1 == SplitFirst(c0, <<"(">>)
        b2 == SplitFirst(b1, <<">">>)
        b3 == SplitFirst(b2, <<"<">>)
        b4 == SplitFirst(b3, <<"=", "=">>)
    IN  SplitFirst(b4, <<"!", "=">>)

component_ok(component) ==
    LET parts == Split(component_base(component), <<".">>) IN
    /\ Len(parts) >= 2
    /\ parts[1] \in DOMAIN BASIC_CONDITIONS
    /\ parts[2] \in BASIC_CONDITIONS[parts[1]]

validate_components(condition) ==
    LET components == SplitLogical(condition) IN
    \A k \in 1..Len(components) : component_ok(components[k])

\* validate_condition with the parentheses checked before the operators
validate_condition_parentheses_first(condition) ==
    IF condition = None \/ condition = <<>> \/ strip(condition) = <<"true">>
    THEN [is_valid |-> TRUE, error |-> ""]
    ELSE LET c == strip(condition) IN
         IF ~check_basic_syntax(c)
         THEN [is_valid |-> FALSE, error |-> "Invalid condition syntax"]
         ELSE IF ~validate_parentheses(c)
         THEN [is_valid |-> FALSE, error |-> "Mismatched parentheses"]
         ELSE IF ~validate_operators(c)
         THEN [is_valid |-> FALSE, error |-> "Invalid operator usage"]
         ELSE IF ~validate_components(c)
         THEN [is_valid |-> FALSE, error |-> "Invalid condition components"]
         ELSE [is_valid |-> TRUE, error |-> ""]

\* validate_condition: (is_valid, error_message)
validate_condition(condition) ==
    IF condition = None \/ condition = <<>> \/ strip(condition) = <<"true">>
    THEN [is_valid |-> TRUE, error |-> ""]
    ELSE LET c == strip(condition) IN
         IF ~check_basic_syntax(c)
         THEN [is_valid |-> FALSE, error |-> "Invalid condition syntax"]
         ELSE IF ~validate_operators(c)
         THEN [is_valid |-> FALSE, error |-> "Invalid operator usage"]
         ELSE IF ~validate_parentheses(c)
         THEN [is_valid |-> FALSE, error |-> "Mismatched parentheses"]
         ELSE IF ~validate_components(c)
         THEN [is_valid |-> FALSE, error |-> "Invalid condition components"]
         ELSE [is_valid |-> TRUE, error |-> ""]

(***************************************************************************)
(* src/conditions.py: ConditionBuilder                                     *)
(*                                                                         *)
(* condition_parts is the list of parts, current_class the class set by    *)
(* set_class (None before).  Each method is an operator from the builder's *)
(* fields to the new value of condition_parts.                             *)
(***************************************************************************)
\* get_available_categories (the code sorts them; only membership is used)
get_available_categories(class) ==
    DOMAIN BASIC_CONDITIONS
        \cup (IF class # None /\ class \in DOMAIN CLASS_CONDITIONS THEN {class} ELSE {})

\* get_conditions_for_category: the keys of the table it returns
get_conditions_for_category(class, category) ==
    IF category \in DOMAIN BASIC_CONDITIONS THEN BASIC_CONDITIONS[category]
    ELSE IF category = class /\ class \in DOMAIN CLASS_CONDITIONS
    THEN CLASS_CONDITIONS[class]
    ELSE {}

\* add_condition_part; operator and value are <<>> when not given
add_condition_part(parts, category, condition, operator, value) ==
    LET condition_str == category \o <<".">> \o condition IN
    Append(parts,
           IF operator # <<>> /\ value # <<>>
           THEN condition_str \o <<" ">> \o operator \o <<" ">> \o value
           ELSE condition_str)

add_logical_operator(parts, operator) == Append(parts, operator)

add_not_operator(parts) ==
    IF parts # <<>> /\ parts[Len(parts)] \notin { <<"&", "&">>, <<"|", "|">> }
    THEN Append(parts, <<"!">>)
    ELSE parts

get_condition(parts) == JoinSpace(parts)

clear(parts) == <<>>

\* remove_last that pops nothing
remove_last_kept(parts) == parts

remove_last(parts) ==
    IF parts # <<>> THEN SubSeq(parts, 1, Len(parts) - 1) ELSE parts

\* ConditionBuilder.validate
builder_validate(parts) == validate_condition(get_condition(parts))

(***************************************************************************)
(* src/conditions.py: parse_condition                                      *)
(*                                                                         *)
(* A lexeme of letters, digits and "_" is one of three kinds for the       *)
(* character classes of the patterns: digits only, letters (and "_") only, *)
(* or letters followed by digits.                                          *)
(***************************************************************************)
DigitLexemes == { ToString(n) : n \in 0..99 }
LetterDigitLexemes == { "a1" }

\* A lexeme all of whose characters are in [a-zA-Z_.]
PathLexeme(tok) ==
    \/ tok = "."
    \/ tok \notin ValidPunctuation \cup OtherPunctuation \cup Whitespace
               \cup DigitLexemes \cup LetterDigitLexemes

\* The end of the greedy run [a-zA-Z_.]+ from position i: the first position
\* that is not of the run.
RECURSIVE PathRunEnd(_, _)
PathRunEnd(s, i) ==
    IF i <= Len(s) /\ PathLexeme(s[i]) THEN PathRunEnd(s, i + 1) ELSE i

\* The end of the greedy run [<>=!]+ from position i
RECURSIVE OperatorRunEnd(_, _)
OperatorRunEnd(s, i) ==
    IF i <= Len(s) /\ s[i] \in {"<", ">", "=", "!"}
    THEN OperatorRunEnd(s, i + 1) ELSE i

\* re.match(r'([a-zA-Z_.]+)\s*([<>=!]+)\s*(\d+)', part): the three groups.
\* The match is anchored at the start of the part only; what follows the
\* digits is not looked at.
ComparisonMatch(part) ==
    LET a == PathRunEnd(part, 1)
        b == SkipSpace(part, a)
        c == OperatorRunEnd(part, b)
        d == SkipSpace(part, c)
    IN IF a > 1 /\ c > b /\ d <= Len(part) /\ part[d] \in DigitLexemes
       THEN [ ok |-> TRUE, condition |-> SubSeq(part, 1, a - 1),
              operator |-> SubSeq(part, b, c - 1), value |-> << part[d] >> ]
       ELSE [ ok |-> FALSE, condition |-> part, operator |-> None, value |-> None ]

\* s.rstrip()
RECURSIVE RStrip(_)
RStrip(s) ==
    IF s # <<>> /\ s[Len(s)] \in Whitespace THEN RStrip(SubSeq(s, 1, Len(s) - 1))
    ELSE s

\* The position of the leftmost && or ||; 0 when there is none.
FirstLogical(s) ==
    LET at == { j \in 1..(Len(s) - 1) :
                  SubSeq(s, j, j + 1) \in { <<"&", "&">>, <<"|", "|">> } }
    IN IF at = {} THEN 0 ELSE CHOOSE j \in at : \A k \in at : j <= k

\* re.split(r'\s*(?:&&|\|\|)\s*', s) and re.findall(r'(?:&&|\|\|)', s)
\* together: each part with the operator that follows it (None after the
\* last).  The leftmost match of the split pattern begins with the
\* whitespace before the leftmost operator and ends with the whitespace after.
RECURSIVE PartsAndOperators(_)
PartsAndOperators(s) ==
    IF FirstLogical(s) = 0 THEN << [part |-> s, logical_operator |-> None] >>
    ELSE << [ part |-> RStrip(SubSeq(s, 1, FirstLogical(s) - 1)),
              logical_operator |-> SubSeq(s, FirstLogical(s), FirstLogical(s) + 1) ] >>
         \o PartsAndOperators(SubSeq(s, SkipSpace(s, FirstLogical(s) + 2), Len(s)))

\* The component of one part
parse_component(part, logical_operator) ==
    LET negated == StartsWith(part, <<"!">>)
        m == ComparisonMatch(IF negated THEN Tail(part) ELSE part)
    IN [ not |-> negated, condition |-> m.condition, operator |-> m.operator,
         value |-> m.value, logical_operator |-> logical_operator ]

\* parse_condition
parse_condition(condition_str) ==
    LET parts == PartsAndOperators(condition_str) IN
    [ i \in 1..Len(parts) |->
        parse_component(parts[i].part, parts[i].logical_operator) ]

(***************************************************************************)
(* src/spell_data.py: the reference catalog                                *)
(***************************************************************************)
(* spell_data.py SPEC_IDS: class -> spec -> numeric spec id. *)
SPEC_IDS ==
  (  "Mage" :> ("Arcane" :> 62 @@ "Fire" :> 63 @@ "Frost" :> 64)
  @@ "Paladin" :> ("Holy" :> 65 @@ "Protection" :> 66 @@ "Retribution" :> 70)
  @@ "Warrior" :> ("Arms" :> 71 @@ "Fury" :> 72 @@ "Protection" :> 73)
  @@ "Druid" :> ("Balance" :> 102 @@ "Feral" :> 103 @@ "Guardian" :> 104 @@ "Restoration" :> 105)
  @@ "Death Knight" :> ("Blood" :> 250 @@ "Frost" :> 251 @@ "Unholy" :> 252)
  @@ "Hunter" :> ("Beast Mastery" :> 253 @@ "Marksmanship" :> 254 @@ "Survival" :> 255)
  @@ "Priest" :> ("Discipline" :> 256 @@ "Holy" :> 257 @@ "Shadow" :> 258)
  @@ "Rogue" :> ("Assassination" :> 259 @@ "Combat" :> 260 @@ "Subtlety" :> 261)
  @@ "Shaman" :> ("Elemental" :> 262 @@ "Enhancement" :> 263 @@ "Restoration" :> 264)
  @@ "Warlock" :> ("Affliction" :> 265 @@ "Demonology" :> 266 @@ "Destruction" :> 267)
  @@ "Monk" :> ("Brewmaster" :> 268 @@ "Windwalker" :> 269 @@ "Mistweaver" :> 270) )

(* spell_data.py SPELL_DATA: class -> spec -> the legal spell names. *)
SPELL_DATA ==
  (  "Mage" :>
       (  "Arcane" :>
            {"Arcane Blast", "Arcane Missiles", "Arcane Barrage",
             "Arcane Power", "Arcane Brilliance", "Evocation", "Blink",
             "Frost Nova", "Slow", "Presence of Mind", "Time Warp",
             "Mirror Image", "Invisibility", "Conjure Mana Gem",
             "Arcane Explosion", "Counterspell", "Spellsteal", "Remove Curse",
             "Flamestrike", "Polymorph", "Ice Block"}
       @@ "Fire" :>
            {"Fireball", "Pyroblast", "Fire Blast", "Flamestrike", "Combustion",
             "Dragon's Breath", "Scorch", "Living Bomb", "Blast Wave",
             "Molten Armor", "Arcane Brilliance", "Evocation", "Blink",
             "Frost Nova", "Mirror Image", "Time Warp", "Invisibility",
             "Conjure Mana Gem", "Counterspell", "Spellsteal", "Remove Curse",
             "Polymorph", "Ice Block"}
       @@ "Frost" :>
            {"Frostbolt", "Ice Lance", "Frost Nova", "Blizzard", "Frozen Orb",
             "Icy Veins", "Cone of Cold", "Frostfire Bolt", "Ice Barrier",
             "Cold Snap", "Frost Armor", "Arcane Brilliance", "Evocation",
             "Blink", "Mirror Image", "Time Warp", "Invisibility",
             "Conjure Mana Gem", "Counterspell", "Spellsteal", "Remove Curse",
             "Polymorph", "Ice Block"} )
  @@ "Paladin" :>
       (  "Holy" :>
            {"Holy Light", "Divine Light", "Holy Shock", "Word of Glory",
             "Holy Radiance", "Light of Dawn", "Beacon of Light",
             "Divine Shield", "Divine Protection", "Lay on Hands",
             "Blessing of Kings", "Blessing of Might", "Hand of Protection",
             "Hand of Freedom", "Hand of Sacrifice", "Hand of Salvation",
             "Devotion Aura", "Holy Prism", "Judgment", "Hammer of Justice",
             "Turn Evil", "Divine Plea"}
       @@ "Protection" :>
            {"Shield of the Righteous", "Avenger's Shield", "Consecration",
             "Hammer of the Righteous", "Judgment", "Holy Wrath",
             "Word of Glory", "Guardian of Ancient Kings", "Divine Protection",
             "Ardent Defender", "Divine Shield", "Blessing of Kings",
             "Blessing of Might", "Hand of Protection", "Hand of Freedom",
             "Hand of Sacrifice", "Hand of Salvation", "Devotion Aura",
             "Light's Hammer", "Hammer of Justice", "Turn Evil", "Divine Plea"}
       @@ "Retribution" :>
            {"Templar's Verdict", "Crusader Strike", "Hammer of Wrath",
             "Judgment", "Exorcism", "Inquisition", "Execution Sentence",
             "Avenging Wrath", "Divine Shield", "Divine Protection",
             "Blessing of Kings", "Blessing of Might", "Hand of Protection",
             "Hand of Freedom", "Hand of Sacrifice", "Hand of Salvation",
             "Devotion Aura", "Hammer of Justice", "Turn Evil", "Divine Plea"} )
  @@ "Warrior" :>
       (  "Arms" :>
            {"Mortal Strike", "Overpower", "Slam", "Execute", "Colossus Smash",
             "Rend", "Thunder Clap", "Sweeping Strikes", "Bladestorm",
             "Die by the Sword", "Battle Shout", "Commanding Shout", "Charge",
             "Heroic Leap", "Hamstring", "Rallying Cry", "Intervene",
             "Spell Reflection", "Shield Wall", "Pummel", "Intimidating Shout",
             "Berserker Rage", "Victory Rush"}
       @@ "Fury" :>
            {"Bloodthirst", "Wild Strike", "Raging Blow", "Execute",
             "Colossus Smash", "Thunder Clap", "Whirlwind", "Berserker Rage",
             "Recklessness", "Battle Shout", "Commanding Shout", "Charge",
             "Heroic Leap", "Hamstring", "Rallying Cry", "Intervene",
             "Spell Reflection", "Shield Wall", "Pummel", "Intimidating Shout",
             "Victory Rush"}
       @@ "Protection" :>
            {"Shield Slam", "Revenge", "Thunder Clap", "Devastate",
             "Shield Block", "Shield Barrier", "Demoralizing Shout",
             "Last Stand", "Shield Wall", "Battle Shout", "Commanding Shout",
             "Charge", "Heroic Leap", "Intervene", "Spell Reflection", "Pummel",
             "Intimidating Shout", "Berserker Rage", "Victory Rush"} )
  @@ "Druid" :>
       (  "Balance" :>
            {"Wrath", "Starfire", "Starsurge", "Moonfire", "Sunfire",
             "Starfall", "Hurricane", "Wild Mushroom",
             "Wild Mushroom: Detonate", "Celestial Alignment",
             "Force of Nature", "Faerie Fire", "Barkskin", "Innervate",
             "Mark of the Wild", "Rebirth", "Tranquility", "Cyclone",
             "Entangling Roots", "Hibernate", "Solar Beam", "Typhoon",
             "Nature's Swiftness", "Symbiosis"}
       @@ "Feral" :>
            {"Shred", "Rake", "Rip", "Ferocious Bite", "Savage Roar",
             "Tiger's Fury", "Berserk", "Cat Form", "Maim", "Faerie Fire",
             "Barkskin", "Innervate", "Mark of the Wild", "Rebirth",
             "Tranquility", "Cyclone", "Entangling Roots", "Hibernate",
             "Skull Bash", "Nature's Swiftness", "Symbiosis"}
       @@ "Guardian" :>
            {"Mangle", "Maul", "Lacerate", "Thrash", "Savage Defense",
             "Frenzied Regeneration", "Survival Instincts", "Bear Form",
             "Incarnation: Son of Ursoc", "Faerie Fire", "Barkskin",
             "Innervate", "Mark of the Wild", "Rebirth", "Tranquility",
             "Cyclone", "Entangling Roots", "Hibernate", "Skull Bash",
             "Nature's Swiftness", "Symbiosis"}
       @@ "Restoration" :>
            {"Rejuvenation", "Healing Touch", "Regrowth", "Lifebloom",
             "Wild Growth", "Swiftmend", "Tranquility", "Wild Mushroom",
             "Wild Mushroom: Bloom", "Nature's Swiftness", "Ironbark",
             "Innervate", "Barkskin", "Mark of the Wild", "Rebirth", "Cyclone",
             "Entangling Roots", "Hibernate", "Symbiosis"} )
  @@ "Death Knight" :>
       (  "Blood" :>
            {"Death Strike", "Heart Strike", "Blood Boil", "Outbreak",
             "Soul Reaper", "Dancing Rune Weapon", "Rune Tap", "Vampiric Blood",
             "Icebound Fortitude", "Anti-Magic Shell", "Death Grip",
             "Mind Freeze", "Strangulate", "Army of the Dead", "Raise Dead",
             "Dark Command", "Death's Advance", "Empower Rune Weapon",
             "Horn of Winter"}
       @@ "Frost" :>
            {"Obliterate", "Frost Strike", "Howling Blast", "Outbreak",
             "Soul Reaper", "Pillar of Frost", "Remorseless Winter",
             "Icebound Fortitude", "Anti-Magic Shell", "Death Grip",
             "Mind Freeze", "Strangulate", "Army of the Dead", "Raise Dead",
             "Dark Command", "Death's Advance", "Empower Rune Weapon",
             "Horn of Winter"}
       @@ "Unholy" :>
            {"Scourge Strike", "Death Coil", "Festering Strike", "Outbreak",
             "Soul Reaper", "Dark Transformation", "Summon Gargoyle",
             "Icebound Fortitude", "Anti-Magic Shell", "Death Grip",
             "Mind Freeze", "Strangulate", "Army of the Dead", "Raise Dead",
             "Dark Command", "Death's Advance", "Empower Rune Weapon",
             "Horn of Winter"} )
  @@ "Hunter" :>
       (  "Beast Mastery" :>
            {"Arcane Shot", "Steady Shot", "Kill Command", "Focus Fire",
             "Bestial Wrath", "Dire Beast", "Multi-Shot", "Cobra Shot",
             "Rapid Fire", "Disengage", "Deterrence", "Concussive Shot",
             "Freezing Trap", "Snake Trap", "Explosive Trap", "Ice Trap",
             "Flare", "Feign Death", "Misdirection", "Tranquilizing Shot",
             "Counter Shot", "Aspect of the Hawk", "Aspect of the Cheetah",
             "Aspect of the Pack"}
       @@ "Marksmanship" :>
            {"Chimera Shot", "Steady Shot", "Aimed Shot", "Arcane Shot",
             "Murder of Crows", "Multi-Shot", "Rapid Fire", "Disengage",
             "Deterrence", "Concussive Shot", "Freezing Trap", "Snake Trap",
             "Explosive Trap", "Ice Trap", "Flare", "Feign Death",
             "Misdirection", "Tranquilizing Shot", "Counter Shot",
             "Aspect of the Hawk", "Aspect of the Cheetah", "Aspect of the Pack"}
       @@ "Survival" :>
            {"Explosive Shot", "Black Arrow", "Serpent Sting", "Arcane Shot",
             "Multi-Shot", "Cobra Shot", "Rapid Fire", "Disengage",
             "Deterrence", "Concussive Shot", "Freezing Trap", "Snake Trap",
             "Explosive Trap", "Ice Trap", "Flare", "Feign Death",
             "Misdirection", "Tranquilizing Shot", "Counter Shot",
             "Aspect of the Hawk", "Aspect of the Cheetah", "Aspect of the Pack"} )
  @@ "Priest" :>
       (  "Discipline" :>
            {"Power Word: Shield", "Penance", "Prayer of Mending", "Flash Heal",
             "Greater Heal", "Prayer of Healing", "Power Word: Barrier",
             "Pain Suppression", "Spirit Shell", "Divine Aegis", "Inner Focus",
             "Archangel", "Dispel Magic", "Mass Dispel", "Purify",
             "Leap of Faith", "Fear Ward", "Fade", "Psychic Scream",
             "Power Word: Fortitude", "Divine Hymn", "Holy Fire", "Smite"}
       @@ "Holy" :>
            {"Heal", "Flash Heal", "Greater Heal", "Binding Heal",
             "Prayer of Mending", "Prayer of Healing", "Circle of Healing",
             "Holy Word: Sanctuary", "Divine Hymn", "Guardian Spirit", "Renew",
             "Chakra", "Dispel Magic", "Mass Dispel", "Purify", "Leap of Faith",
             "Fear Ward", "Fade", "Psychic Scream", "Power Word: Fortitude",
             "Holy Fire", "Smite"}
       @@ "Shadow" :>
            {"Mind Blast", "Mind Flay", "Shadow Word: Pain", "Vampiric Touch",
             "Devouring Plague", "Mind Spike", "Shadow Word: Death",
             "Shadowfiend", "Dispersion", "Psychic Horror", "Dispel Magic",
             "Mass Dispel", "Leap of Faith", "Fear Ward", "Fade",
             "Psychic Scream", "Power Word: Fortitude", "Shadow Word: Insanity"} )
  @@ "Rogue" :>
       (  "Assassination" :>
            {"Mutilate", "Envenom", "Dispatch", "Rupture", "Garrote",
             "Vendetta", "Fan of Knives", "Crimson Tempest", "Slice and Dice",
             "Recuperate", "Sprint", "Vanish", "Cloak of Shadows", "Evasion",
             "Combat Readiness", "Shadow Step", "Feint", "Kick", "Blind",
             "Tricks of the Trade", "Kidney Shot", "Cheap Shot", "Sap",
             "Distract", "Stealth"}
       @@ "Combat" :>
            {"Sinister Strike", "Eviscerate", "Revealing Strike",
             "Slice and Dice", "Adrenaline Rush", "Killing Spree",
             "Blade Flurry", "Fan of Knives", "Crimson Tempest", "Recuperate",
             "Sprint", "Vanish", "Cloak of Shadows", "Evasion",
             "Combat Readiness", "Feint", "Kick", "Blind",
             "Tricks of the Trade", "Kidney Shot", "Cheap Shot", "Sap",
             "Distract", "Stealth"}
       @@ "Subtlety" :>
            {"Backstab", "Hemorrhage", "Eviscerate", "Rupture", "Shadow Dance",
             "Premeditation", "Ambush", "Fan of Knives", "Crimson Tempest",
             "Slice and Dice", "Recuperate", "Sprint", "Vanish",
             "Cloak of Shadows", "Evasion", "Combat Readiness", "Shadow Step",
             "Feint", "Kick", "Blind", "Tricks of the Trade", "Kidney Shot",
             "Cheap Shot", "Sap", "Distract", "Stealth"} )
  @@ "Shaman" :>
       (  "Elemental" :>
            {"Lightning Bolt", "Chain Lightning", "Earth Shock", "Flame Shock",
             "Lava Burst", "Earthquake", "Elemental Blast", "Thunderstorm",
             "Ascendance", "Spiritwalker's Grace", "Fire Elemental Totem",
             "Earth Elemental Totem", "Healing Stream Totem",
             "Healing Tide Totem", "Grounding Totem", "Capacitor Totem",
             "Wind Shear", "Ghost Wolf", "Water Walking", "Water Breathing"}
       @@ "Enhancement" :>
            {"Stormstrike", "Lava Lash", "Earth Shock", "Flame Shock",
             "Lightning Bolt", "Searing Totem", "Feral Spirit", "Ascendance",
             "Fire Elemental Totem", "Earth Elemental Totem",
             "Healing Stream Totem", "Healing Tide Totem", "Grounding Totem",
             "Capacitor Totem", "Wind Shear", "Ghost Wolf", "Water Walking",
             "Water Breathing"}
       @@ "Restoration" :>
            {"Healing Wave", "Healing Surge", "Greater Healing Wave",
             "Chain Heal", "Riptide", "Healing Rain", "Healing Stream Totem",
             "Healing Tide Totem", "Spirit Link Totem", "Ascendance",
             "Spiritwalker's Grace", "Earth Shield", "Water Shield",
             "Grounding Totem", "Capacitor Totem", "Wind Shear", "Ghost Wolf",
             "Water Walking", "Water Breathing"} )
  @@ "Warlock" :>
       (  "Affliction" :>
            {"Agony", "Corruption", "Unstable Affliction", "Malefic Grasp",
             "Haunt", "Drain Soul", "Seed of Corruption", "Soulburn",
             "Dark Soul: Misery", "Life Tap", "Fear", "Howl of Terror",
             "Mortal Coil", "Demonic Circle: Teleport", "Unending Resolve",
             "Dark Bargain", "Soulshatter", "Fel Armor", "Health Funnel",
             "Create Healthstone", "Summon Doomguard", "Summon Infernal",
             "Summon Felhunter", "Summon Voidwalker", "Summon Imp",
             "Summon Succubus"}
       @@ "Demonology" :>
            {"Shadow Bolt", "Soul Fire", "Hand of Gul'dan", "Metamorphosis",
             "Touch of Chaos", "Doom", "Hellfire", "Chaos Wave",
             "Dark Soul: Knowledge", "Life Tap", "Fear", "Howl of Terror",
             "Mortal Coil", "Demonic Circle: Teleport", "Unending Resolve",
             "Dark Bargain", "Soulshatter", "Fel Armor", "Health Funnel",
             "Create Healthstone", "Summon Doomguard", "Summon Infernal",
             "Summon Felhunter", "Summon Voidwalker", "Summon Imp",
             "Summon Felguard"}
       @@ "Destruction" :>
            {"Incinerate", "Immolate", "Conflagrate", "Chaos Bolt",
             "Shadowburn", "Rain of Fire", "Havoc", "Dark Soul: Instability",
             "Life Tap", "Fear", "Howl of Terror", "Mortal Coil",
             "Demonic Circle: Teleport", "Unending Resolve", "Dark Bargain",
             "Soulshatter", "Fel Armor", "Health Funnel", "Create Healthstone",
             "Summon Doomguard", "Summon Infernal", "Summon Felhunter",
             "Summon Voidwalker", "Summon Imp", "Summon Succubus"} )
  @@ "Monk" :>
       (  "Brewmaster" :>
            {"Keg Smash", "Blackout Kick", "Tiger Palm", "Breath of Fire",
             "Guard", "Purifying Brew", "Fortifying Brew", "Zen Sphere",
             "Chi Wave", "Leg Sweep", "Rushing Jade Wind",
             "Summon Black Ox Statue", "Spear Hand Strike", "Elusive Brew",
             "Expel Harm", "Detox", "Roll", "Flying Serpent Kick",
             "Spinning Crane Kick", "Touch of Death", "Paralysis",
             "Legacy of the Emperor", "Legacy of the White Tiger"}
       @@ "Windwalker" :>
            {"Tiger Palm", "Blackout Kick", "Rising Sun Kick", "Fists of Fury",
             "Spinning Crane Kick", "Touch of Death", "Storm, Earth, and Fire",
             "Energizing Brew", "Tiger's Lust", "Chi Wave", "Zen Sphere",
             "Leg Sweep", "Rushing Jade Wind", "Spear Hand Strike",
             "Expel Harm", "Detox", "Roll", "Flying Serpent Kick",
             "Touch of Karma", "Paralysis", "Legacy of the Emperor",
             "Legacy of the White Tiger"}
       @@ "Mistweaver" :>
            {"Soothing Mist", "Enveloping Mist", "Surging Mist",
             "Renewing Mist", "Chi Wave", "Zen Sphere", "Chi Burst",
             "Life Cocoon", "Revival", "Thunder Focus Tea",
             "Spinning Crane Kick", "Detox", "Roll", "Flying Serpent Kick",
             "Touch of Death", "Paralysis", "Legacy of the Emperor",
             "Legacy of the White Tiger"} ) )

\* get_spec_id: the id, or None
get_spec_id(class_name, spec_name) ==
    IF class_name \in DOMAIN SPEC_IDS /\ spec_name \in DOMAIN SPEC_IDS[class_name]
    THEN SPEC_IDS[class_name][spec_name]
    ELSE None

\* Rotation._validate_spec passes: get_spec_id gave an id, and not 0
\* ("if not self.spec_id" raises for None and for 0)
valid_spec(class_name, spec_name) ==
    /\ class_name \in DOMAIN SPEC_IDS
    /\ spec_name \in DOMAIN SPEC_IDS[class_name]
    /\ SPEC_IDS[class_name][spec_name] # 0

\* get_spells_for_spec: the names (the code sorts them; only membership is used)
get_spells_for_spec(class_name, spec_name) ==
    IF class_name \in DOMAIN SPELL_DATA /\ spec_name \in DOMAIN SPELL_DATA[class_name]
    THEN SPELL_DATA[class_name][spec_name]
    ELSE {}

(***************************************************************************)
(* src/core/rotation.py: SpellEntry, RotationMetadata, Rotation            *)
(*                                                                         *)
(* A SpellEntry is [obj, name, condition, priority, enabled, notes]; obj   *)
(* is the identity of the Python object (two entries may agree in every    *)
(* field).  A Rotation is [metadata, spells, spec_id].  An operation is an *)
(* operator from the Rotation, the arguments and the clock reading of the  *)
(* call to [rotation, result]: the Rotation it leaves and what it returns  *)
(* or raises.                                                              *)
(***************************************************************************)
Times == 0..MaxTime

\* Rotation.__init__ at clock reading t (a legal class/spec pair)
NewRotation(class_name, spec_name, t) ==
    [ metadata |->
        [ name |-> class_name \o " " \o spec_name \o " Rotation",
          class_name |-> class_name,
          spec_name |-> spec_name,
          author |-> <<>>,
          version |-> <<"1", ".", "0">>,
          description |-> <<>>,
          created_at |-> t,
          modified_at |-> t,
          tags |-> <<>> ],
      spells |-> <<>>,
      spec_id |-> get_spec_id(class_name, spec_name) ]

\* A fresh object identity: the least one no entry of the list has.
NewObj(spells) ==
    CHOOSE o \in 1..(Len(spells) + 1) :
        /\ \A i \in 1..Len(spells) : spells[i].obj # o
        /\ \A p \in 1..(o - 1) : \E i \in 1..Len(spells) : spells[i].obj = p

\* list.sort(key=priority): a stable sort, as an insertion after the last
\* entry whose priority is not greater.
RECURSIVE InsertByPriority(_, _)
InsertByPriority(sorted, e) ==
    IF sorted = <<>> THEN <<e>>
    ELSE IF sorted[Len(sorted)].priority <= e.priority THEN Append(sorted, e)
    ELSE Append(InsertByPriority(SubSeq(sorted, 1, Len(sorted) - 1), e),
                sorted[Len(sorted)])

RECURSIVE SortFrom(_, _)
SortFrom(sorted, rest) ==
    IF rest = <<>> THEN sorted
    ELSE SortFrom(InsertByPriority(sorted, Head(rest)), Tail(rest))

sort_spells(spells) == SortFrom(<<>>, spells)

Touch(r, t) == [r EXCEPT !.metadata.modified_at = t]

\* The texts of the ValueErrors add_spell raises.
SpellNotFound(r, spell_name) ==
    <<"Spell ", spell_name, " not found for ",
      r.metadata.class_name, "/", r.metadata.spec_name>>
InvalidConditionMessage(error) == <<"Invalid condition: ", error>>

\* add_spell with the shift made before the two validations.
add_spell_shift_first(r, spell_name, condition, priority, t) ==
    LET p == IF priority = <<>> THEN Len(r.spells) + 1 ELSE priority[1]
        shifted ==
          IF priority = <<>> THEN r.spells
          ELSE [ i \in 1..Len(r.spells) |->
                   IF r.spells[i].priority >= p
                   THEN [r.spells[i] EXCEPT !.priority = @ + 1]
                   ELSE r.spells[i] ]
        entry == [ obj |-> NewObj(r.spells), name |-> spell_name,
                   condition |-> condition, priority |-> p,
                   enabled |-> TRUE, notes |-> <<>> ]
    IN IF spell_name \notin
             get_spells_for_spec(r.metadata.class_name, r.metadata.spec_name)
       THEN [rotation |-> [r EXCEPT !.spells = shifted], result |-> "UnknownSpell"]
       ELSE IF ~validate_condition(condition).is_valid
       THEN [rotation |-> [r EXCEPT !.spells = shifted], result |-> "InvalidCondition"]
       ELSE [ rotation |-> Touch([r EXCEPT !.spells = sort_spells(Append(shifted, entry))], t),
              result |-> "ok", message |-> <<>> ]

\* add_spell with the condition validated before the spell name.
add_spell_condition_first(r, spell_name, condition, priority, t) ==
    IF ~validate_condition(condition).is_valid
    THEN [rotation |-> r, result |-> "InvalidCondition",
          message |-> InvalidConditionMessage(validate_condition(condition).error)]
    ELSE IF spell_name \notin
          get_spells_for_spec(r.metadata.class_name, r.metadata.spec_name)
    THEN [rotation |-> r, result |-> "UnknownSpell", message |-> SpellNotFound(r, spell_name)]
    ELSE
      LET p == IF priority = <<>> THEN Len(r.spells) + 1 ELSE priority[1]
          shifted ==
            IF priority = <<>> THEN r.spells
            ELSE [ i \in 1..Len(r.spells) |->
                     IF r.spells[i].priority >= p
                     THEN [r.spells[i] EXCEPT !.priority = @ + 1]
                     ELSE r.spells[i] ]
          entry == [ obj |-> NewObj(r.spells), name |-> spell_name,
                     condition |-> condition, priority |-> p,
                     enabled |-> TRUE, notes |-> <<>> ]
      IN [ rotation |-> Touch([r EXCEPT !.spells = sort_spells(Append(shifted, entry))], t),
           result |-> "ok", message |-> <<>> ]

\* Rotation.add_spell; priority is <<>> (omitted) or <<p>>
add_spell(r, spell_name, condition, priority, t) ==
    IF spell_name \notin
          get_spells_for_spec(r.metadata.class_name, r.metadata.spec_name)
    THEN [rotation |-> r, result |-> "UnknownSpell", message |-> SpellNotFound(r, spell_name)]
    ELSE IF ~validate_condition(condition).is_valid
    THEN [rotation |-> r, result |-> "InvalidCondition",
          message |-> InvalidConditionMessage(validate_condition(condition).error)]
    ELSE
      LET p == IF priority = <<>> THEN Len(r.spells) + 1 ELSE priority[1]
          shifted ==
            IF priority = <<>> THEN r.spells
            ELSE [ i \in 1..Len(r.spells) |->
                     IF r.spells[i].priority >= p
                     THEN [r.spells[i] EXCEPT !.priority = @ + 1]
                     ELSE r.spells[i] ]
          entry == [ obj |-> NewObj(r.spells), name |-> spell_name,
                     condition |-> condition, priority |-> p,
                     enabled |-> TRUE, notes |-> <<>> ]
      IN [ rotation |-> Touch([r EXCEPT !.spells = sort_spells(Append(shifted, entry))], t),
           result |-> "ok", message |-> <<>> ]

\* The position of the first entry with that priority; 0 when there is none.
FirstAt(spells, priority) ==
    IF \E i \in 1..Len(spells) : spells[i].priority = priority
    THEN CHOOSE i \in 1..Len(spells) :
            /\ spells[i].priority = priority
            /\ \A j \in 1..(i - 1) : spells[j].priority # priority
    ELSE 0

\* remove_spell that pops the entry and leaves the gap open.
remove_spell_gap_left(r, priority, t) ==
    LET i == FirstAt(r.spells, priority) IN
    IF i = 0 THEN [rotation |-> r, result |-> "False"]
    ELSE [ rotation |->
             Touch([r EXCEPT !.spells =
                       SubSeq(r.spells, 1, i - 1) \o SubSeq(r.spells, i + 1, Len(r.spells))], t),
           result |-> "True" ]

\* Rotation.remove_spell
remove_spell(r, priority, t) ==
    LET i == FirstAt(r.spells, priority) IN
    IF i = 0 THEN [rotation |-> r, result |-> "False"]
    ELSE
      LET popped == SubSeq(r.spells, 1, i - 1) \o SubSeq(r.spells, i + 1, Len(r.spells))
          closed == [ k \in 1..Len(popped) |->
                        IF popped[k].priority > priority
                        THEN [popped[k] EXCEPT !.priority = @ - 1]
                        ELSE popped[k] ]
      IN [rotation |-> Touch([r EXCEPT !.spells = closed], t), result |-> "True"]

\* move_spell whose shifted range leaves out the entry at to_priority.
move_spell_range_short(r, from_priority, to_priority, t) ==
    IF from_priority = to_priority THEN [rotation |-> r, result |-> "True"]
    ELSE
      LET m == FirstAt(r.spells, from_priority) IN
      IF m = 0 THEN [rotation |-> r, result |-> "False"]
      ELSE
        LET shifted ==
              [ k \in 1..Len(r.spells) |->
                  LET s == r.spells[k] IN
                  IF from_priority < to_priority
                  THEN IF from_priority < s.priority /\ s.priority < to_priority
                       THEN [s EXCEPT !.priority = @ - 1] ELSE s
                  ELSE IF to_priority < s.priority /\ s.priority < from_priority
                       THEN [s EXCEPT !.priority = @ + 1] ELSE s ]
            moved == [shifted EXCEPT ![m].priority = to_priority]
        IN [ rotation |-> Touch([r EXCEPT !.spells = sort_spells(moved)], t),
             result |-> "True" ]

\* move_spell without the early return for equal priorities.
move_spell_no_early_return(r, from_priority, to_priority, t) ==
    LET m == FirstAt(r.spells, from_priority) IN
    IF m = 0 THEN [rotation |-> r, result |-> "False"]
    ELSE
      LET shifted ==
            [ k \in 1..Len(r.spells) |->
                LET s == r.spells[k] IN
                IF from_priority < to_priority
                THEN IF from_priority < s.priority /\ s.priority <= to_priority
                     THEN [s EXCEPT !.priority = @ - 1] ELSE s
                ELSE IF to_priority <= s.priority /\ s.priority < from_priority
                     THEN [s EXCEPT !.priority = @ + 1] ELSE s ]
          moved == [shifted EXCEPT ![m].priority = to_priority]
      IN [ rotation |-> Touch([r EXCEPT !.spells = sort_spells(moved)], t),
           result |-> "True" ]

\* Rotation.move_spell
move_spell(r, from_priority, to_priority, t) ==
    IF from_priority = to_priority THEN [rotation |-> r, result |-> "True"]
    ELSE
      LET m == FirstAt(r.spells, from_priority) IN
      IF m = 0 THEN [rotation |-> r, result |-> "False"]
      ELSE
        LET shifted ==
              [ k \in 1..Len(r.spells) |->
                  LET s == r.spells[k] IN
                  IF from_priority < to_priority
                  THEN IF from_priority < s.priority /\ s.priority <= to_priority
                       THEN [s EXCEPT !.priority = @ - 1] ELSE s
                  ELSE IF to_priority <= s.priority /\ s.priority < from_priority
                       THEN [s EXCEPT !.priority = @ + 1] ELSE s ]
            moved == [shifted EXCEPT ![m].priority = to_priority]
        IN [ rotation |-> Touch([r EXCEPT !.spells = sort_spells(moved)], t),
             result |-> "True" ]

\* setattr for every key of kwargs (a record of some of the entry's fields)
SetAttrs(spell, kwargs) ==
    [ f \in DOMAIN spell |-> IF f \in DOMAIN kwargs THEN kwargs[f] ELSE spell[f] ]

\* update_spell without the write of modified_at
update_spell_untouched(r, priority, kwargs, t) ==
    LET i == FirstAt(r.spells, priority) IN
    IF i = 0 THEN [rotation |-> r, result |-> "False"]
    ELSE IF /\ "condition" \in DOMAIN kwargs
            /\ ~validate_condition(kwargs.condition).is_valid
    THEN [rotation |-> r, result |-> "InvalidCondition"]
    ELSE [ rotation |-> [r EXCEPT !.spells[i] = SetAttrs(@, kwargs)],
           result |-> "True" ]

\* Rotation.update_spell
update_spell(r, priority, kwargs, t) ==
    LET i == FirstAt(r.spells, priority) IN
    IF i = 0 THEN [rotation |-> r, result |-> "False"]
    ELSE IF /\ "condition" \in DOMAIN kwargs
            /\ ~validate_condition(kwargs.condition).is_valid
    THEN [rotation |-> r, result |-> "InvalidCondition"]
    ELSE [ rotation |-> Touch([r EXCEPT !.spells[i] = SetAttrs(@, kwargs)], t),
           result |-> "True" ]

(***************************************************************************)
(* src/core/exporter.py: RotationExporter, RotationImporter                *)
(*                                                                         *)
(* A document is the tree the text denotes: what the exporter writes and   *)
(* the parser (json.loads, ElementTree) hands to the importer.  An import  *)
(* returns [status |-> "ok", rotation] or, for the ValueError every        *)
(* importer wraps its failures in, [status |-> "error", format, cause].    *)
(* The clock reading t is the one the import's last add_spell makes.       *)
(***************************************************************************)
ImportOk(r) == [status |-> "ok", rotation |-> r]
\* An import without its except clause: the exception raised inside leaves
\* the importer as it is.
ImportError_unwrapped(format, cause) ==
    [status |-> "raised", format |-> "", cause |-> cause]
ImportError(format, cause) == [status |-> "error", format |-> format, cause |-> cause]

\* RotationExporter.to_json: the object json.dumps writes
to_json(r) ==
    [ format_version |-> <<"1", ".", "0">>,
      metadata |->
        [ name |-> r.metadata.name,
          class_name |-> r.metadata.class_name,
          spec_name |-> r.metadata.spec_name,
          author |-> r.metadata.author,
          version |-> r.metadata.version,
          description |-> r.metadata.description,
          created_at |-> r.metadata.created_at,
          modified_at |-> r.metadata.modified_at,
          tags |-> r.metadata.tags ],
      spec_id |-> r.spec_id,
      spells |->
        [ i \in 1..Len(r.spells) |->
            [ name |-> r.spells[i].name,
              condition |-> r.spells[i].condition,
              priority |-> r.spells[i].priority,
              enabled |-> r.spells[i].enabled,
              notes |-> r.spells[i].notes ] ] ]

\* The importers' loop over the spells of a document: add_spell for each in
\* turn, then enabled and notes set on the entry add_spell returned (the one
\* with the fresh identity).  The first add_spell that raises ends the loop.
RECURSIVE ImportSpells(_, _, _)
ImportSpells(r, spells, t) ==
    IF spells = <<>> THEN [rotation |-> r, result |-> "ok"]
    ELSE
      LET d == Head(spells)
          fresh == NewObj(r.spells)
          added == add_spell(r, d.name, d.condition, <<d.priority>>, t)
          set == [ i \in 1..Len(added.rotation.spells) |->
                     IF added.rotation.spells[i].obj = fresh
                     THEN [added.rotation.spells[i] EXCEPT
                              !.enabled = d.enabled, !.notes = d.notes]
                     ELSE added.rotation.spells[i] ]
      IN IF added.result # "ok" THEN [rotation |-> r, result |-> added.result]
         ELSE ImportSpells([added.rotation EXCEPT !.spells = set], Tail(spells), t)

\* RotationImporter.from_json on a document with every key present
from_json(doc, t) ==
    IF doc.format_version # <<"1", ".", "0">>
    THEN ImportError("JSON", "Unsupported JSON format version")
    ELSE IF ~valid_spec(doc.metadata.class_name, doc.metadata.spec_name)
    THEN ImportError("JSON", "Invalid class/spec combination")
    ELSE
      LET made == NewRotation(doc.metadata.class_name, doc.metadata.spec_name, t)
          r0 == [made EXCEPT
                   !.metadata.name = doc.metadata.name,
                   !.metadata.author = doc.metadata.author,
                   !.metadata.version = doc.metadata.version,
                   !.metadata.description = doc.metadata.description,
                   !.metadata.created_at = doc.metadata.created_at,
                   !.metadata.modified_at = doc.metadata.modified_at,
                   !.metadata.tags = doc.metadata.tags]
          filled == ImportSpells(r0, doc.spells, t)
      IN IF filled.result = "ok" THEN ImportOk(filled.rotation)
         ELSE ImportError("JSON", filled.result)

\* One microsecond, the resolution of datetime, in units of the clock: a
\* float of time.time() is finer than the date-time text made from it.
TicksPerMicrosecond == 4

\* datetime.fromtimestamp(t).isoformat(): t rounded to the nearest
\* microsecond, half to even.
isoformat(t) ==
    LET q == t \div TicksPerMicrosecond
        rem == t % TicksPerMicrosecond
    IN [ microseconds |->
           IF 2 * rem < TicksPerMicrosecond THEN q
           ELSE IF 2 * rem > TicksPerMicrosecond THEN q + 1
           ELSE IF q % 2 = 0 THEN q ELSE q + 1 ]

\* datetime.fromisoformat(text).timestamp()
fromisoformat_timestamp(text) == text.microseconds * TicksPerMicrosecond

\* str(n) and int(text) for the priorities
IntToText(n) == IF n < 0 THEN <<"-", ToString(-n)>> ELSE <<ToString(n)>>
TextToInt(text) ==
    CHOOSE n \in -(MaxPriority + MaxSpells)..(MaxPriority + MaxSpells) :
        IntToText(n) = text

\* str(b).lower()
BoolToText(b) == IF b THEN <<"true">> ELSE <<"false">>

\* What .text of an element reads after the text set on it was written and
\* parsed again: an element with no text or empty text is written <tag/>,
\* whose text parses as None.
ElementText(value) == IF value = <<>> \/ value = None THEN None ELSE value

\* RotationExporter.to_xml and ElementTree's parse of it: the tree from_xml
\* reads, every leaf an element's text
to_xml(r) ==
    [ metadata |->
        [ name |-> r.metadata.name,
          class |-> r.metadata.class_name,
          spec |-> r.metadata.spec_name,
          author |-> ElementText(r.metadata.author),
          version |-> ElementText(r.metadata.version),
          description |-> ElementText(r.metadata.description),
          created |-> isoformat(r.metadata.created_at),
          modified |-> isoformat(r.metadata.modified_at),
          tags |-> [ i \in 1..Len(r.metadata.tags) |-> ElementText(r.metadata.tags[i]) ] ],
      spells |->
        [ i \in 1..Len(r.spells) |->
            [ name |-> r.spells[i].name,
              condition |-> ElementText(r.spells[i].condition),
              priority |-> IntToText(r.spells[i].priority),
              enabled |-> BoolToText(r.spells[i].enabled),
              notes |-> ElementText(r.spells[i].notes) ] ] ]

\* RotationImporter.from_xml on a tree with every element present
from_xml(doc, t) ==
    IF ~valid_spec(doc.metadata.class, doc.metadata.spec)
    THEN ImportError("XML", "Invalid class/spec combination")
    ELSE
      LET made == NewRotation(doc.metadata.class, doc.metadata.spec, t)
          r0 == [made EXCEPT
                   !.metadata.name = doc.metadata.name,
                   !.metadata.author = doc.metadata.author,
                   !.metadata.version = doc.metadata.version,
                   !.metadata.description = doc.metadata.description,
                   !.metadata.created_at = fromisoformat_timestamp(doc.metadata.created),
                   !.metadata.modified_at = fromisoformat_timestamp(doc.metadata.modified),
                   !.metadata.tags = doc.metadata.tags]
          spells == [ i \in 1..Len(doc.spells) |->
                        [ name |-> doc.spells[i].name,
                          condition |-> doc.spells[i].condition,
                          priority |-> TextToInt(doc.spells[i].priority),
                          enabled |-> doc.spells[i].enabled = <<"true">>,
                          notes |-> doc.spells[i].notes ] ]
          filled == ImportSpells(r0, spells, t)
      IN IF filled.result = "ok" THEN ImportOk(filled.rotation)
         ELSE ImportError("XML", filled.result)

\* RotationImporter.from_json on any content: a text json.loads cannot
\* parse, [malformed |-> text], or an object, which may lack keys.  The
\* failures before the entries are the JSONDecodeError, the ValueError of the
\* version test, the KeyError of a missing key and the ValueError of the
\* Rotation constructor, in the order the code meets them; the except clause
\* makes each the ValueError of the import.
from_json_any(content, t) ==
    IF "malformed" \in DOMAIN content
    THEN ImportError("JSON", "Expecting value")
    ELSE IF \/ "format_version" \notin DOMAIN content
            \/ content.format_version # <<"1", ".", "0">>
    THEN ImportError("JSON", "Unsupported JSON format version")
    ELSE IF "metadata" \notin DOMAIN content
    THEN ImportError("JSON", "'metadata'")
    ELSE IF ~valid_spec(content.metadata.class_name, content.metadata.spec_name)
    THEN ImportError("JSON", "Invalid class/spec combination")
    ELSE IF "spells" \notin DOMAIN content
    THEN ImportError("JSON", "'spells'")
    ELSE from_json(content, t)

\* RotationImporter.from_xml on any content: a text ElementTree cannot
\* parse, or a tree, which may lack the metadata or the spells element
\* (root.find gives None, and the next .find on it raises AttributeError).
from_xml_any(content, t) ==
    IF "malformed" \in DOMAIN content
    THEN ImportError("XML", "syntax error")
    ELSE IF "metadata" \notin DOMAIN content
    THEN ImportError("XML", "'NoneType' object has no attribute 'find'")
    ELSE IF ~valid_spec(content.metadata.class, content.metadata.spec)
    THEN ImportError("XML", "Invalid class/spec combination")
    ELSE IF "spells" \notin DOMAIN content
    THEN ImportError("XML", "'NoneType' object has no attribute 'findall'")
    ELSE from_xml(content, t)

(***************************************************************************)
(* The text formats (SOE Engine code and plain Lua).  A text is a sequence *)
(* of lexemes as above, with "\n" between the lines; a catalog name or a   *)
(* Rotation name, which the model holds as one string, is one lexeme of    *)
(* the text (none when the name is empty).                                 *)
(***************************************************************************)
\* "\n".join(lines)
RECURSIVE JoinLines(_)
JoinLines(lines) ==
    IF lines = <<>> THEN <<>>
    ELSE IF Len(lines) = 1 THEN lines[1]
    ELSE lines[1] \o <<"\n">> \o JoinLines(Tail(lines))

\* The lines of several entries, one after the other.
RECURSIVE FlattenLines(_)
FlattenLines(groups) ==
    IF groups = <<>> THEN <<>> ELSE Head(groups) \o FlattenLines(Tail(groups))

\* f"{value}" for a text field (None prints as None) and for a name
Formatted(value) == IF value = None THEN <<"None">> ELSE value
FormattedName(name) == IF name = "" THEN <<>> ELSE <<name>>

\* The name a group of lexemes spells: their concatenation.
RECURSIVE Spelled(_)
Spelled(lexemes) ==
    IF lexemes = <<>> THEN "" ELSE Head(lexemes) \o Spelled(Tail(lexemes))

\* `if value:` on a text field
Truthy(value) == value # None /\ value # <<>>

\* datetime.fromtimestamp(t).strftime('%Y-%m-%d %H:%M:%S'): t to the second
\* below, written here as the count of seconds.
strftime(t) == <<ToString(t \div (TicksPerMicrosecond * 1000000))>>

Indent == <<" ", " ", " ", " ">>

\* RotationExporter.to_soe
to_soe(r) ==
    LET header ==
          << <<"-", "-", " ">> \o FormattedName(r.metadata.name),
             <<"-", "-", " ", "Author", ":", " ">> \o Formatted(r.metadata.author),
             <<"-", "-", " ", "Version", ":", " ">> \o Formatted(r.metadata.version),
             <<"-", "-", " ", "Created", ":", " ">> \o strftime(r.metadata.created_at),
             <<"-", "-", " ", "Last", " ", "Modified", ":", " ">>
                \o strftime(r.metadata.modified_at),
             <<"-", "-", " ", "Description", ":">>,
             <<"-", "-", " ">> \o Formatted(r.metadata.description),
             <<>>,
             <<"SOEEngine", ".", "rotation", ".", "register", "(">>
                \o <<ToString(r.spec_id), ",", " ", "{">>,
             Indent \o <<"-", "-", " ", "Combat", " ", "rotation">> >>
        SpellLines(spell) ==
          IF ~spell.enabled THEN <<>>
          ELSE (IF Truthy(spell.notes)
                THEN << Indent \o <<"-", "-", " ">> \o spell.notes >>
                ELSE <<>>)
               \o << Indent \o <<"{", " ", "\"">> \o FormattedName(spell.name)
                       \o <<"\"", ",", " ", "\"">> \o Formatted(spell.condition)
                       \o <<"\"", " ", "}", ",">> >>
    IN JoinLines(header
                 \o FlattenLines([i \in 1..Len(r.spells) |-> SpellLines(r.spells[i])])
                 \o << <<"}", ")">> >>)

\* The regular expressions of the importers.  A pattern is a sequence of
\* elements, each after an optional \s*: a literal lexeme, a quoted group
\* "([^"]+)" or "([^"]*)", a group of digits (\d+), or the group (.+), which
\* runs to the end of the line.  Every element has one way to match, so
\* there is no backtracking (the texts the exporters write go on after every
\* label, which is where (.+) after \s* would need it).
Lit(tok) == [kind |-> "lit", ws |-> FALSE, tok |-> tok]
WsLit(tok) == [kind |-> "lit", ws |-> TRUE, tok |-> tok]
WsQuoted(nonempty) == [kind |-> "quoted", ws |-> TRUE, nonempty |-> nonempty]
Digits(ws) == [kind |-> "digits", ws |-> ws]
WsLine == [kind |-> "line", ws |-> TRUE]

\* The least position from k on that holds tok; Len(s) + 1 when none does.
RECURSIVE NextAt(_, _, _)
NextAt(s, k, tok) ==
    IF k > Len(s) \/ s[k] = tok THEN k ELSE NextAt(s, k + 1, tok)

\* A number that is the id of no class and spec.
UnknownSpecId == 999

\* The numerals the texts hold: priorities and spec ids.
NumeralValues ==
    0..(MaxPriority + MaxSpells)
    \cup {UnknownSpecId}
    \cup UNION { { SPEC_IDS[c][sp] : sp \in DOMAIN SPEC_IDS[c] } : c \in DOMAIN SPEC_IDS }
Numerals == { ToString(n) : n \in NumeralValues }
NumeralValue(tok) == CHOOSE n \in NumeralValues : ToString(n) = tok

NoMatch == [ok |-> FALSE, end |-> 0, groups |-> <<>>]

\* re.match of the pattern at position i: the position after the match and
\* the groups.
RECURSIVE Match(_, _, _)
Match(s, i, pat) ==
    IF pat = <<>> THEN [ok |-> TRUE, end |-> i, groups |-> <<>>]
    ELSE
      LET e == Head(pat)
          j == IF e.ws THEN SkipSpace(s, i) ELSE i
          Then(end, group) ==
            LET rest == Match(s, end, Tail(pat)) IN
            IF rest.ok THEN [rest EXCEPT !.groups = group \o @] ELSE NoMatch
      IN IF j > Len(s) THEN NoMatch
         ELSE IF e.kind = "lit"
         THEN IF s[j] = e.tok THEN Then(j + 1, <<>>) ELSE NoMatch
         ELSE IF e.kind = "quoted"
         THEN LET q == NextAt(s, j + 1, "\"") IN
              IF s[j] = "\"" /\ q <= Len(s) /\ (q > j + 1 \/ ~e.nonempty)
              THEN Then(q + 1, << SubSeq(s, j + 1, q - 1) >>)
              ELSE NoMatch
         ELSE IF e.kind = "digits"
         THEN IF s[j] \in Numerals THEN Then(j + 1, << <<s[j]>> >>) ELSE NoMatch
         ELSE IF s[j] # "\n"
         THEN Then(NextAt(s, j, "\n"), << SubSeq(s, j, NextAt(s, j, "\n") - 1) >>)
         ELSE NoMatch

\* The positions from i on where the pattern matches (every pattern here
\* begins with a literal lexeme).
Hits(s, i, pat) ==
    { k \in i..Len(s) : s[k] = Head(pat).tok /\ Match(s, k, pat).ok }

\* re.finditer: the groups of the matches from position i on, left to right,
\* none overlapping.
RECURSIVE FindAll(_, _, _)
FindAll(s, i, pat) ==
    LET hits == Hits(s, i, pat) IN
    IF hits = {} THEN <<>>
    ELSE LET k == CHOOSE x \in hits : \A h \in hits : x <= h
             m == Match(s, k, pat)
         IN << m.groups >> \o FindAll(s, IF m.end > k THEN m.end ELSE k + 1, pat)

\* re.search: the groups of the leftmost match, in a sequence; <<>> when
\* there is no match.
Search(s, i, pat) ==
    LET hits == Hits(s, i, pat) IN
    IF hits = {} THEN <<>>
    ELSE << Match(s, CHOOSE k \in hits : \A h \in hits : k <= h, pat).groups >>

\* r'register\((\d+)'
SpecIdPattern == << Lit("register"), Lit("("), Digits(FALSE) >>
\* r'--\s*Author:\s*(.+)' and the like
LabelPattern(label) == << Lit("-"), Lit("-"), WsLit(label), Lit(":"), WsLine >>
\* r'\{\s*"([^"]+)",\s*"([^"]+)"\s*\}'
SoeSpellPattern ==
    << Lit("{"), WsQuoted(TRUE), Lit(","), WsQuoted(TRUE), WsLit("}") >>

\* The class and spec of a spec id, as from_soe finds them: the first pair of
\* SPEC_IDS with that id (no two pairs have the same id).
SpecOfId(spec_id) ==
    { <<c, sp>> \in UNION { { <<c, sp>> : sp \in DOMAIN SPEC_IDS[c] } :
                              c \in DOMAIN SPEC_IDS } :
        SPEC_IDS[c][sp] = spec_id }

\* The value a metadata pattern finds, stripped; the old value when the
\* pattern has no match.
Labelled(found, old) == IF found = <<>> THEN old ELSE strip(found[1][1])

\* The entries from_soe adds: the i-th match at priority i.  add_spell
\* leaves a new entry enabled and without notes, and from_soe sets neither.
SoeSpells(matches) ==
    [ i \in 1..Len(matches) |->
        [ name |-> Spelled(matches[i][1]), condition |-> matches[i][2],
          priority |-> i, enabled |-> TRUE, notes |-> <<>> ] ]

\* The end of an import: the Rotation, or the ValueError that wraps what
\* add_spell raised.
ImportResult(format, filled) ==
    IF filled.result = "ok" THEN ImportOk(filled.rotation)
    ELSE ImportError(format, filled.result)

\* from_soe from the spec id on: the Rotation of the first class and spec
\* with that id, the metadata, the entries.
from_soe_spec(content, found, t) ==
    IF found = {} THEN ImportError("SOE", "Invalid spec ID")
    ELSE ImportResult("SOE",
           ImportSpells(
             [ (CHOOSE r \in { NewRotation(x[1], x[2], t) : x \in found } : TRUE) EXCEPT
                 !.metadata.author =
                     Labelled(Search(content, 1, LabelPattern("Author")), @),
                 !.metadata.version =
                     Labelled(Search(content, 1, LabelPattern("Version")), @),
                 !.metadata.description =
                     Labelled(Search(content, 1, LabelPattern("Description")), @) ],
             SoeSpells(FindAll(content, 1, SoeSpellPattern)), t))

\* The spec id of a match of SpecIdPattern
MatchedSpecId(spec_match) == NumeralValue(spec_match[1][1][1])

\* RotationImporter.from_soe
from_soe(content, t) ==
    IF Search(content, 1, SpecIdPattern) = <<>>
    THEN ImportError("SOE", "Could not find spec ID in SOE code")
    ELSE from_soe_spec(content,
                       SpecOfId(MatchedSpecId(Search(content, 1, SpecIdPattern))), t)

(***************************************************************************)
(* src/core/rotation.py: Rotation.from_soe_format, the second importer of  *)
(* the registration format.                                                *)
(***************************************************************************)
\* The names rotation.py binds at module level: its imports (lines 1-6) and
\* its classes.
rotation_module_names ==
    { "Dict", "List", "Optional", "Any", "dataclass", "asdict", "json", "time",
      "ConditionValidator", "spell_data", "SpellEntry", "RotationMetadata",
      "Rotation" }

\* from_soe_format from the spec id on
from_soe_format_spec(content, found, t) ==
    IF found = {} THEN ImportError("SOE", "Invalid spec ID")
    ELSE ImportResult("SOE",
           ImportSpells(
             CHOOSE r \in { NewRotation(x[1], x[2], t) : x \in found } : TRUE,
             SoeSpells(FindAll(content, 1, SoeSpellPattern)), t))

\* Rotation.from_soe_format.  Its first statement reads the global name
\* `re`; a name the module does not bind raises NameError, which the except
\* clause of lines 226-227 turns into the ValueError.
from_soe_format(soe_code, t) ==
    IF "re" \notin rotation_module_names
    THEN ImportError("SOE", "name 're' is not defined")
    ELSE IF Search(soe_code, 1, SpecIdPattern) = <<>>
    THEN ImportError("SOE", "Could not find spec ID in code")
    ELSE from_soe_format_spec(soe_code,
           SpecOfId(MatchedSpecId(Search(soe_code, 1, SpecIdPattern))), t)

\* to_lua without the test of spell.enabled
to_lua_every_entry(r) ==
    LET Quoted(value) == <<"\"">> \o value \o <<"\"">>
        Field(depth, key, value) ==
          depth \o <<key, " ", "=", " ">> \o value
        head ==
          << <<"-", "-", " ">> \o FormattedName(r.metadata.name),
             <<"-", "-", " ", "Author", ":", " ">> \o Formatted(r.metadata.author),
             <<"-", "-", " ", "Version", ":", " ">> \o Formatted(r.metadata.version),
             <<>>,
             <<"local", " ", "rotationTable", " ", "=", " ", "{">>,
             Field(Indent, "name", Quoted(FormattedName(r.metadata.name)) \o <<",">>),
             Field(Indent, "class", Quoted(FormattedName(r.metadata.class_name)) \o <<",">>),
             Field(Indent, "spec", Quoted(FormattedName(r.metadata.spec_name)) \o <<",">>),
             Indent \o <<"spells", " ", "=", " ", "{">> >>
        Block(spell) ==
          << Indent \o Indent \o <<"{">>,
             Field(Indent \o Indent \o Indent, "name", Quoted(FormattedName(spell.name)) \o <<",">>),
             Field(Indent \o Indent \o Indent, "condition", Quoted(Formatted(spell.condition)) \o <<",">>),
             Field(Indent \o Indent \o Indent, "priority", IntToText(spell.priority) \o <<",">>),
             Field(Indent \o Indent \o Indent, "notes", Quoted(Formatted(spell.notes))),
             Indent \o Indent \o <<"}", ",">> >>
        body == FlattenLines([ i \in 1..Len(r.spells) |-> Block(r.spells[i]) ])
        foot == << Indent \o <<"}">>, <<"}">>, <<>>,
                   <<"return", " ", "rotationTable">> >>
    IN JoinLines(head \o body \o foot)

\* RotationExporter.to_lua: the lines, joined by "\n"
to_lua(r) ==
    LET Quoted(value) == <<"\"">> \o value \o <<"\"">>
        Field(depth, key, value) ==
          depth \o <<key, " ", "=", " ">> \o value
        head ==
          << <<"-", "-", " ">> \o FormattedName(r.metadata.name),
             <<"-", "-", " ", "Author", ":", " ">> \o Formatted(r.metadata.author),
             <<"-", "-", " ", "Version", ":", " ">> \o Formatted(r.metadata.version),
             <<>>,
             <<"local", " ", "rotationTable", " ", "=", " ", "{">>,
             Field(Indent, "name", Quoted(FormattedName(r.metadata.name)) \o <<",">>),
             Field(Indent, "class", Quoted(FormattedName(r.metadata.class_name)) \o <<",">>),
             Field(Indent, "spec", Quoted(FormattedName(r.metadata.spec_name)) \o <<",">>),
             Indent \o <<"spells", " ", "=", " ", "{">> >>
        Block(spell) ==
          IF spell.enabled
          THEN << Indent \o Indent \o <<"{">>,
                  Field(Indent \o Indent \o Indent, "name", Quoted(FormattedName(spell.name)) \o <<",">>),
                  Field(Indent \o Indent \o Indent, "condition", Quoted(Formatted(spell.condition)) \o <<",">>),
                  Field(Indent \o Indent \o Indent, "priority", IntToText(spell.priority) \o <<",">>),
                  Field(Indent \o Indent \o Indent, "notes", Quoted(Formatted(spell.notes))),
                  Indent \o Indent \o <<"}", ",">> >>
          ELSE <<>>
        body == FlattenLines([ i \in 1..Len(r.spells) |-> Block(r.spells[i]) ])
        foot == << Indent \o <<"}">>, <<"}">>, <<>>,
                   <<"return", " ", "rotationTable">> >>
    IN JoinLines(head \o body \o foot)

\* r'class\s*=\s*"([^"]+)"' and the like
FieldPattern(key) == << Lit(key), WsLit("="), WsQuoted(TRUE) >>
\* r'{\s*name\s*=\s*"([^"]+)",\s*condition\s*=\s*"([^"]+)",\s*priority\s*=\s*(\d+),\s*notes\s*=\s*"([^"]*)"'
LuaSpellPattern ==
    << Lit("{"), WsLit("name"), WsLit("="), WsQuoted(TRUE), Lit(","),
       WsLit("condition"), WsLit("="), WsQuoted(TRUE), Lit(","),
       WsLit("priority"), WsLit("="), [kind |-> "digits", ws |-> TRUE], Lit(","),
       WsLit("notes"), WsLit("="), WsQuoted(FALSE) >>

\* The entries from_lua adds, with the notes it sets on each.  add_spell
\* leaves a new entry enabled.
LuaSpells(matches) ==
    [ i \in 1..Len(matches) |->
        [ name |-> Spelled(matches[i][1]), condition |-> matches[i][2],
          priority |-> NumeralValue(matches[i][3][1]),
          enabled |-> TRUE, notes |-> matches[i][4] ] ]

\* The name from_lua sets: the one the name pattern finds, if any.
LuaNamed(made, name_match) ==
    IF name_match = <<>> THEN made
    ELSE [made EXCEPT !.metadata.name = Spelled(name_match[1][1])]

\* from_lua from the class and spec on.  The Rotation constructor raises
\* for a class and spec that are no valid pair.
from_lua_spec(content, class_name, spec_name, t) ==
    IF ~valid_spec(class_name, spec_name)
    THEN ImportError("Lua", "Invalid class/spec combination")
    ELSE ImportResult("Lua",
           ImportSpells(
             LuaNamed(NewRotation(class_name, spec_name, t),
                      Search(content, 1, FieldPattern("name"))),
             LuaSpells(FindAll(content, 1, LuaSpellPattern)), t))

\* RotationImporter.from_lua
from_lua(content, t) ==
    IF \/ Search(content, 1, FieldPattern("class")) = <<>>
       \/ Search(content, 1, FieldPattern("spec")) = <<>>
    THEN ImportError("Lua", "Could not find class or spec in Lua code")
    ELSE from_lua_spec(content,
                       Spelled(Search(content, 1, FieldPattern("class"))[1][1]),
                       Spelled(Search(content, 1, FieldPattern("spec"))[1][1]), t)

\* Priorities are exactly 1..N and the list is in ascending priority order:
\* the entry at position i has priority i.
PriorityInvariant(spells) == \A i \in 1..Len(spells) : spells[i].priority = i

(***************************************************************************)
(* The editing model: one Priest/Holy Rotation and the calls made on it.   *)
(***************************************************************************)
TheClass == "Priest"
TheSpec == "Holy"

ConditionTrue == <<"true">>
ConditionMoving == <<"player", ".", "moving">>
ConditionUnknown == <<"foo", ".", "bar">>
ConditionUnspaced == <<"player", ".", "health", ">", "30">>

\* The arguments the calls are given.
PriorityArgs == 0..MaxPriority
OptPriorityArgs == {<<>>} \cup { <<p>> : p \in PriorityArgs }
AddArgs ==
    { [spell_name |-> "Smite", condition |-> ConditionTrue, priority |-> p] :
        p \in OptPriorityArgs }
    \cup { [spell_name |-> "Fireball", condition |-> ConditionTrue, priority |-> <<1>>],
           [spell_name |-> "Fireball", condition |-> ConditionUnknown, priority |-> <<>>],
           [spell_name |-> "Smite", condition |-> ConditionUnspaced, priority |-> <<>>],
           [spell_name |-> "Smite", condition |-> ConditionUnknown, priority |-> <<1>>],
           [spell_name |-> "Smite", condition |-> ConditionUnknown, priority |-> <<>>] }
UpdateArgs ==
    { [condition |-> ConditionUnknown, notes |-> <<"n">>, enabled |-> FALSE],
      [notes |-> <<"n">>],
      [priority |-> 1] }

\* time.time() during a call: the clock does not run backwards.  It reads one
\* tick after the latest reading the Rotation holds, and at the end of the
\* model's clock the same reading again.
ClockReadings(r) ==
    { IF r.metadata.modified_at < MaxTime
      THEN r.metadata.modified_at + 1 ELSE MaxTime }

\* The last call, as the claims read it: what was called, with what, what it
\* returned or raised, and whether the priorities were 1..N in list order
\* when it began.
NoCall ==
    [ op |-> "none", args |-> <<>>, result |-> "none", message |-> <<>>,
      dense_before |-> TRUE ]
NoImport == [status |-> "none"]
\* No condition handed to validate_condition yet.
NoVerdict == [condition |-> None, checked |-> FALSE, is_valid |-> FALSE, error |-> ""]

InitRotation ==
    /\ rotation = NewRotation(TheClass, TheSpec, 0)
    /\ call = NoCall

InitIdle ==
    /\ imported = NoImport
    /\ condition_parts = <<>>
    /\ current_class = None
    /\ verdict = NoVerdict

Init == InitRotation /\ InitIdle

\* A call on the Rotation: res is what the operation computes.
Do(op, args, res) ==
    /\ rotation' = res.rotation
    /\ call' = [ op |-> op, args |-> args, result |-> res.result,
                 message |-> IF "message" \in DOMAIN res THEN res.message ELSE <<>>,
                 dense_before |-> PriorityInvariant(rotation.spells) ]
    /\ UNCHANGED <<imported, condition_parts, current_class, verdict>>

AddSpell ==
    /\ Len(rotation.spells) < MaxSpells
    /\ \E a \in AddArgs, t \in ClockReadings(rotation) :
          Do("add_spell", a,
             add_spell(rotation, a.spell_name, a.condition, a.priority, t))

RemoveSpell ==
    \E p \in PriorityArgs, t \in ClockReadings(rotation) :
        Do("remove_spell", [priority |-> p], remove_spell(rotation, p, t))

MoveSpell ==
    \E f \in PriorityArgs, g \in PriorityArgs, t \in ClockReadings(rotation) :
        Do("move_spell", [from_priority |-> f, to_priority |-> g],
           move_spell(rotation, f, g, t))

UpdateSpell ==
    \E p \in PriorityArgs, kw \in UpdateArgs, t \in ClockReadings(rotation) :
        Do("update_spell", [priority |-> p, kwargs |-> kw],
           update_spell(rotation, p, kw, t))

\* add_spell on a Rotation whose entries are updated as well: update_spell
\* multiplies the entries a list can hold, so these lists are kept shorter.
AddSpellEdited ==
    /\ Len(rotation.spells) < MaxEdited
    /\ \E a \in AddArgs, t \in ClockReadings(rotation) :
          Do("add_spell", a,
             add_spell(rotation, a.spell_name, a.condition, a.priority, t))

\* Every call of the Rotation, on lists of up to MaxEdited entries.
Next == AddSpellEdited \/ RemoveSpell \/ MoveSpell \/ UpdateSpell

Spec == Init /\ [][Next]_vars

\* The calls of the priority claims only: add_spell, remove_spell and
\* move_spell, on lists of up to MaxSpells entries.
NextMoves == AddSpell \/ RemoveSpell \/ MoveSpell

SpecMoves == Init /\ [][NextMoves]_vars

\* add_spell with the priority omitted or in 1..N+1, N the entries held
AddSpellInRange ==
    /\ Len(rotation.spells) < MaxSpells
    /\ \E a \in AddArgs, t \in ClockReadings(rotation) :
          /\ IF a.priority = <<>> THEN TRUE
             ELSE a.priority[1] \in 1..(Len(rotation.spells) + 1)
          /\ Do("add_spell", a,
                add_spell(rotation, a.spell_name, a.condition, a.priority, t))

\* move_spell to a priority in 1..N from any priority; the editor's move up
\* and move down are the calls (p, p - 1) for p > 1 and (p, p + 1) for p < N.
MoveSpellInRange ==
    \E f \in PriorityArgs, g \in 1..Len(rotation.spells), t \in ClockReadings(rotation) :
        Do("move_spell", [from_priority |-> f, to_priority |-> g],
           move_spell(rotation, f, g, t))

\* The calls with in-range arguments: remove_spell takes any priority.
NextInRange == AddSpellInRange \/ RemoveSpell \/ MoveSpellInRange

SpecInRange == Init /\ [][NextInRange]_vars

(***************************************************************************)
(* The codec model: a Rotation as the editor can have built it (entries    *)
(* added and updated, author, description and tags set, priorities 1..N in *)
(* list order) is exported and the text imported again.                    *)
(***************************************************************************)
EntryShapes ==
    { [name |-> "Smite", condition |-> ConditionTrue, enabled |-> TRUE, notes |-> <<>>],
      [name |-> "Renew", condition |-> ConditionMoving, enabled |-> FALSE,
       notes |-> <<"opener">>],
      [name |-> "Smite", condition |-> <<>>, enabled |-> TRUE, notes |-> <<"filler">>] }
AuthorArgs == { <<>>, <<"me">> }
DescriptionArgs == { <<>>, <<"raid">> }
TagsArgs == { <<>>, << <<"pve">> >> }

CodecRotations ==
    UNION { { [ NewRotation(TheClass, TheSpec, c) EXCEPT
                  !.metadata.author = a,
                  !.metadata.description = d,
                  !.metadata.tags = g,
                  !.metadata.modified_at = m,
                  !.spells = [ i \in 1..n |->
                                 [ obj |-> i, name |-> shape[i].name,
                                   condition |-> shape[i].condition, priority |-> i,
                                   enabled |-> shape[i].enabled,
                                   notes |-> shape[i].notes ] ] ] :
                shape \in [1..n -> EntryShapes], a \in AuthorArgs,
                d \in DescriptionArgs, g \in TagsArgs,
                c \in Times, m \in Times } :
            n \in 0..MaxCodecSpells }

InitCodec ==
    /\ rotation \in { r \in CodecRotations :
                        r.metadata.created_at <= r.metadata.modified_at }
    /\ call = NoCall
    /\ InitIdle

\* An export followed by the import of what was exported.
RoundTrip(op, res) ==
    /\ imported' = res
    /\ call' = [ op |-> op, args |-> <<>>, result |-> res.status,
                 message |-> <<>>,
                 dense_before |-> PriorityInvariant(rotation.spells) ]
    /\ UNCHANGED <<rotation, condition_parts, current_class, verdict>>

JsonRoundTrip ==
    \E t \in ClockReadings(rotation) :
        RoundTrip("from_json", from_json(to_json(rotation), t))

XmlRoundTrip ==
    \E t \in ClockReadings(rotation) :
        RoundTrip("from_xml", from_xml(to_xml(rotation), t))

SoeRoundTrip ==
    \E t \in ClockReadings(rotation) :
        RoundTrip("from_soe", from_soe(to_soe(rotation), t))

LuaRoundTrip ==
    \E t \in ClockReadings(rotation) :
        RoundTrip("from_lua", from_lua(to_lua(rotation), t))

NextCodec == JsonRoundTrip \/ XmlRoundTrip \/ SoeRoundTrip \/ LuaRoundTrip

SpecCodec == InitCodec /\ [][NextCodec]_vars

(***************************************************************************)
(* The import model: texts that no exporter need have written are handed   *)
(* to the importers.  The imports are static methods: the Rotation being   *)
(* edited stays as it is.                                                  *)
(***************************************************************************)
SoeTuples ==
    { [name |-> "Smite", condition |-> ConditionTrue],
      [name |-> "Renew", condition |-> ConditionMoving],
      [name |-> "Fireball", condition |-> ConditionTrue],
      [name |-> "Smite", condition |-> ConditionUnspaced] }
SoeIds == { SPEC_IDS["Priest"]["Holy"], SPEC_IDS["Mage"]["Fire"], UnknownSpecId }
SoeInputs ==
    UNION { [id : SoeIds, tuples : [1..n -> SoeTuples]] : n \in 0..MaxImportSpells }

\* A registration text: the register call with its tuples, one on a line.
SoeText(id, tuples) ==
    JoinLines(
      << <<"SOEEngine", ".", "rotation", ".", "register", "(",
           ToString(id), ",", " ", "{">> >>
      \o [ i \in 1..Len(tuples) |->
             Indent \o <<"{", " ", "\"", tuples[i].name, "\"", ",", " ", "\"">>
                \o tuples[i].condition \o <<"\"", " ", "}", ",">> ]
      \o << <<"}", ")">> >>)

\* A text that is no rotation in any format.
NoRotationText == <<"local", " ", "x", " ", "=", " ", "1">>

SoeTexts == { SoeText(x.id, x.tuples) : x \in SoeInputs } \cup { NoRotationText }

\* The spell tables of a plain-table text: what is written for name,
\* condition and priority.
LuaTables ==
    { [name |-> "Smite", condition |-> ConditionTrue, priority |-> p] :
        p \in 1..MaxPriority }
    \cup { [name |-> "Renew", condition |-> ConditionMoving, priority |-> 2],
           [name |-> "Fireball", condition |-> ConditionTrue, priority |-> 1],
           [name |-> "Smite", condition |-> ConditionUnspaced, priority |-> 1] }
LuaSpecs == { <<"Priest", "Holy">>, <<"Priest", "Fire">> }
LuaInputs ==
    UNION { [spec : LuaSpecs, tables : [1..n -> LuaTables]] : n \in 0..MaxImportSpells }

\* A plain-table text, laid out as to_lua lays it out.
LuaText(spec, tables) ==
    to_lua([ metadata |-> [ name |-> "Imported", author |-> <<>>,
                            version |-> <<"1", ".", "0">>,
                            class_name |-> spec[1], spec_name |-> spec[2] ],
             spells |-> [ i \in 1..Len(tables) |->
                            [ name |-> tables[i].name,
                              condition |-> tables[i].condition,
                              priority |-> tables[i].priority,
                              enabled |-> TRUE, notes |-> <<>> ] ] ])

LuaTexts == { LuaText(x.spec, x.tables) : x \in LuaInputs } \cup { NoRotationText }

\* The Rotation whose export is the document with these entries written.
Written(spec, tables) ==
    [ NewRotation(spec[1], spec[2], 0) EXCEPT
        !.spells = [ i \in 1..Len(tables) |->
                       [ obj |-> i, name |-> tables[i].name,
                         condition |-> tables[i].condition,
                         priority |-> tables[i].priority,
                         enabled |-> TRUE, notes |-> <<>> ] ] ]

\* A record without one of its fields.
Without(doc, key) == [ k \in DOMAIN doc \ {key} |-> doc[k] ]

\* JSON contents: the objects with the entries of LuaInputs; an object with
\* another format_version, with none, without metadata, without spells; a
\* text that is no JSON.
JsonContents ==
    { to_json(Written(x.spec, x.tables)) : x \in LuaInputs }
    \cup { [to_json(Written(<<"Priest", "Holy">>, <<>>)) EXCEPT
              !.format_version = <<"2", ".", "0">>],
           Without(to_json(Written(<<"Priest", "Holy">>, <<>>)), "format_version"),
           Without(to_json(Written(<<"Priest", "Holy">>, <<>>)), "metadata"),
           Without(to_json(Written(<<"Priest", "Holy">>, <<>>)), "spells"),
           [malformed |-> NoRotationText] }

\* XML contents: the trees with the entries of LuaInputs; a tree without
\* metadata, without spells; a text that is no XML.
XmlContents ==
    { to_xml(Written(x.spec, x.tables)) : x \in LuaInputs }
    \cup { Without(to_xml(Written(<<"Priest", "Holy">>, <<>>)), "metadata"),
           Without(to_xml(Written(<<"Priest", "Holy">>, <<>>)), "spells"),
           [malformed |-> NoRotationText] }

\* The file chosen for import, not yet read by an importer.
ImportFile(format, content) ==
    [status |-> "file", format |-> format, content |-> content]

ImportFiles ==
    { ImportFile("soe", c) : c \in SoeTexts }
    \cup { ImportFile("lua", c) : c \in LuaTexts }
    \cup { ImportFile("json", c) : c \in JsonContents }
    \cup { ImportFile("xml", c) : c \in XmlContents }

\* The file is chosen first, then the importer of its format is called on it.
InitImport ==
    /\ InitRotation
    /\ imported \in ImportFiles
    /\ condition_parts = <<>>
    /\ current_class = None
    /\ verdict = NoVerdict

ImportSoe ==
    \E t \in ClockReadings(rotation) :
        /\ imported.status = "file" /\ imported.format = "soe"
        /\ imported' = from_soe(imported.content, t)
        /\ call' = [ op |-> "from_soe", args |-> <<imported.content>>,
                     result |-> imported'.status, message |-> <<>>,
                     dense_before |-> PriorityInvariant(rotation.spells) ]
        /\ UNCHANGED <<rotation, condition_parts, current_class, verdict>>

ImportSoeFormat ==
    \E t \in ClockReadings(rotation) :
        /\ imported.status = "file" /\ imported.format = "soe"
        /\ imported' = from_soe_format(imported.content, t)
        /\ call' = [ op |-> "from_soe_format", args |-> <<imported.content>>,
                     result |-> imported'.status, message |-> <<>>,
                     dense_before |-> PriorityInvariant(rotation.spells) ]
        /\ UNCHANGED <<rotation, condition_parts, current_class, verdict>>

ImportLua ==
    \E t \in ClockReadings(rotation) :
        /\ imported.status = "file" /\ imported.format = "lua"
        /\ imported' = from_lua(imported.content, t)
        /\ call' = [ op |-> "from_lua", args |-> <<imported.content>>,
                     result |-> imported'.status, message |-> <<>>,
                     dense_before |-> PriorityInvariant(rotation.spells) ]
        /\ UNCHANGED <<rotation, condition_parts, current_class, verdict>>

ImportJson ==
    \E t \in ClockReadings(rotation) :
        /\ imported.status = "file" /\ imported.format = "json"
        /\ imported' = from_json_any(imported.content, t)
        /\ call' = [ op |-> "from_json", args |-> <<imported.content>>,
                     result |-> imported'.status, message |-> <<>>,
                     dense_before |-> PriorityInvariant(rotation.spells) ]
        /\ UNCHANGED <<rotation, condition_parts, current_class, verdict>>

ImportXml ==
    \E t \in ClockReadings(rotation) :
        /\ imported.status = "file" /\ imported.format = "xml"
        /\ imported' = from_xml_any(imported.content, t)
        /\ call' = [ op |-> "from_xml", args |-> <<imported.content>>,
                     result |-> imported'.status, message |-> <<>>,
                     dense_before |-> PriorityInvariant(rotation.spells) ]
        /\ UNCHANGED <<rotation, condition_parts, current_class, verdict>>

NextImport == ImportSoe \/ ImportSoeFormat \/ ImportLua \/ ImportJson \/ ImportXml

SpecImport == InitImport /\ [][NextImport]_vars

(***************************************************************************)
(* The builder model: the calls the condition panel makes on its           *)
(* ConditionBuilder.                                                       *)
(***************************************************************************)
ClassArgs == { <<"Druid">>, <<"Priest">> }
LogicalArgs == { <<"&", "&">>, <<"|", "|">> }
\* category, condition, operator, value
PartArgs ==
    { <<c[1], c[2], o[1], o[2]>> :
        c \in { << <<"player">>, <<"health">> >>,
                << <<"target">>, <<"exists">> >>,
                << <<"Druid">>, <<"solar">> >> },
        o \in { << <<>>, <<>> >>,
                << <<">">>, <<"30">> >>,
                << <<"<", "=">>, <<"30">> >> } }

InitBuilder == InitRotation /\ InitIdle

BuilderStep(parts) ==
    /\ condition_parts' = parts
    /\ UNCHANGED <<rotation, call, imported, current_class, verdict>>

SetClass ==
    /\ \E c \in ClassArgs : current_class' = c
    /\ UNCHANGED <<rotation, call, imported, condition_parts, verdict>>

\* The panel offers the categories of get_available_categories and, for the
\* one chosen, the conditions of get_conditions_for_category.
AddConditionPart ==
    /\ Len(condition_parts) < MaxParts
    /\ \E a \in PartArgs :
          /\ a[1] \in get_available_categories(current_class)
          /\ a[2] \in get_conditions_for_category(current_class, a[1])
          /\ BuilderStep(add_condition_part(condition_parts, a[1], a[2], a[3], a[4]))

AddLogicalOperator ==
    /\ Len(condition_parts) < MaxParts
    /\ \E o \in LogicalArgs : BuilderStep(add_logical_operator(condition_parts, o))

AddNotOperator ==
    /\ Len(condition_parts) < MaxParts
    /\ BuilderStep(add_not_operator(condition_parts))

RemoveLast ==
    /\ condition_parts' = remove_last(condition_parts)
    /\ UNCHANGED <<rotation, call, imported, current_class, verdict>>

Clear ==
    /\ condition_parts' = clear(condition_parts)
    /\ UNCHANGED <<rotation, call, imported, current_class, verdict>>

NextBuilder ==
    \/ SetClass
    \/ AddConditionPart
    \/ AddLogicalOperator
    \/ AddNotOperator
    \/ RemoveLast
    \/ Clear

SpecBuilder == InitBuilder /\ [][NextBuilder]_vars

(***************************************************************************)
(* The builder model with its calls on record: the call just made, the     *)
(* parts it found, and for a remove_last made directly after an add call   *)
(* the parts that add call had found.                                      *)
(***************************************************************************)
AddCalls == { "add_condition_part", "add_logical_operator", "add_not_operator" }

BuilderCall(op, args, undoes) ==
    [ op |-> op, args |-> args, result |-> "None", message |-> <<>>,
      dense_before |-> TRUE, before |-> condition_parts, undoes |-> undoes ]

InitBuilderCalls ==
    /\ rotation = NewRotation(TheClass, TheSpec, 0)
    /\ call = [ op |-> "none", args |-> <<>>, result |-> "none", message |-> <<>>,
                dense_before |-> TRUE, before |-> <<>>, undoes |-> None ]
    /\ InitIdle

BuilderAddConditionPart ==
    /\ Len(condition_parts) < MaxParts
    /\ \E a \in PartArgs :
          /\ a[1] \in get_available_categories(current_class)
          /\ a[2] \in get_conditions_for_category(current_class, a[1])
          /\ condition_parts' = add_condition_part(condition_parts, a[1], a[2], a[3], a[4])
          /\ call' = BuilderCall("add_condition_part", a, None)
    /\ UNCHANGED <<rotation, imported, current_class, verdict>>

BuilderAddLogicalOperator ==
    /\ Len(condition_parts) < MaxParts
    /\ \E o \in LogicalArgs :
          /\ condition_parts' = add_logical_operator(condition_parts, o)
          /\ call' = BuilderCall("add_logical_operator", <<o>>, None)
    /\ UNCHANGED <<rotation, imported, current_class, verdict>>

BuilderAddNotOperator ==
    /\ Len(condition_parts) < MaxParts
    /\ condition_parts' = add_not_operator(condition_parts)
    /\ call' = BuilderCall("add_not_operator", <<>>, None)
    /\ UNCHANGED <<rotation, imported, current_class, verdict>>

BuilderRemoveLast ==
    /\ condition_parts' = remove_last(condition_parts)
    /\ call' = BuilderCall("remove_last", <<>>,
                           IF call.op \in AddCalls THEN call.before ELSE None)
    /\ UNCHANGED <<rotation, imported, current_class, verdict>>

BuilderClear ==
    /\ condition_parts' = clear(condition_parts)
    /\ call' = BuilderCall("clear", <<>>, None)
    /\ UNCHANGED <<rotation, imported, current_class, verdict>>

NextBuilderCalls ==
    \/ BuilderAddConditionPart
    \/ BuilderAddLogicalOperator
    \/ BuilderAddNotOperator
    \/ BuilderRemoveLast
    \/ BuilderClear

SpecBuilderCalls == InitBuilderCalls /\ [][NextBuilderCalls]_vars

(***************************************************************************)
(* The validator model: validate_condition called on a condition text.     *)
(***************************************************************************)
ComparisonOperators ==
    { <<">">>, <<"<">>, <<">", "=">>, <<"<", "=">>, <<"=", "=">>, <<"!", "=">> }
NumberArgs == { <<"30">>, <<"0">> }

\* Every category.subcategory path of the vocabulary.
RecognizedPaths ==
    UNION { { c \o <<".">> \o k : k \in BASIC_CONDITIONS[c] } :
            c \in DOMAIN BASIC_CONDITIONS }
\* The clauses the conditions of several clauses are made of.
JoinedClauses ==
    { <<"player", ".", "health">>,
      <<"target", ".", "exists">>,
      <<"player", ".", "health", " ", ">", " ", "30">>,
      <<"target", ".", "health", " ", "!", "=", " ", "0">> }

\* The clauses of the documented grammar over the paths: a bare path, or
\* path, space, comparison operator, space, number.
GrammarClauses(paths) ==
    paths \cup { path \o <<" ">> \o o \o <<" ">> \o n :
                    path \in paths, o \in ComparisonOperators, n \in NumberArgs }

\* k clauses joined by " && " or " || "
RECURSIVE GrammarJoined(_)
GrammarJoined(k) ==
    IF k = 1 THEN JoinedClauses
    ELSE { c \o <<" ">> \o l \o <<" ">> \o d :
              c \in GrammarJoined(k - 1), l \in LogicalArgs, d \in JoinedClauses }

GrammarConditions ==
    GrammarClauses(RecognizedPaths) \cup UNION { GrammarJoined(k) : k \in 1..MaxClauses }

\* "!" before every recognized path, alone and after "target.exists && ".
NegatedConditions ==
    { <<"!">> \o path : path \in RecognizedPaths }
    \cup { <<"target", ".", "exists", " ", "&", "&", " ", "!">> \o path :
              path \in RecognizedPaths }

\* Every class.subcategory clause of the per-class tables.
ClassClauses ==
    UNION { { c \o <<".">> \o k : k \in CLASS_CONDITIONS[c] } :
            c \in DOMAIN CLASS_CONDITIONS }

\* Conditions with an operator written without its spaces, alone or next to
\* an occurrence of the same operator that has them.
ConditionQualifierUnspaced ==
    <<"player", ".", "health", ".", "a", ">", "1", " ", ">", " ", "2">>
ConditionParenUnspaced ==
    <<"player", ".", "moving", "(", "&", "&", ")", " ", "&", "&", " ",
      "target", ".", "exists">>
ConditionNotUnspaced ==
    <<"player", ".", "health", ".", "!", "a", " ", "!", " ", "b">>
UnspacedConditions ==
    { ConditionUnspaced, ConditionQualifierUnspaced, ConditionParenUnspaced,
      ConditionNotUnspaced,
      <<"player", ".", "moving", "&", "&", "target", ".", "exists">>,
      <<"!", "player", ".", "moving">> }

\* 'player.health > 30 &&'
ConditionDangling ==
    <<"player", ".", "health", " ", ">", " ", "30", " ", "&", "&">>

\* Conditions that fail one check or several, and padded ones.
MalformedConditions ==
    { <<"player", ".", "moving", ",">>,
      <<"a", " ", " ", ">", "b">>,
      <<"a", " ", " ", "b", ")">>,
      <<"player", ".", "moving", ">", "b", ")">>,
      <<"foo", ".", "bar", ")">>,
      <<"player", ".", "moving", ")">>,
      <<"(", "player", ".", "moving">>,
      <<"(", "player", ".", "moving", ")">>,
      <<"player", ".", "moving", "(", ")">>,
      <<"player">>,
      <<"player", ".", "nothing">>,
      <<" ">>,
      <<" ", "true", " ">>,
      <<" ", "player", ".", "moving", " ">>,
      <<" ", " ", "player", ".", "moving">> }

ConditionInputs ==
    GrammarConditions \cup { <<>>, ConditionTrue, ConditionUnknown }
    \cup NegatedConditions \cup ClassClauses \cup UnspacedConditions
    \cup { ConditionDangling } \cup MalformedConditions

\* The condition is drawn first, then validate_condition is called on it.
InitValidate ==
    /\ InitRotation
    /\ imported = NoImport
    /\ condition_parts = <<>>
    /\ current_class = None
    /\ verdict \in { [NoVerdict EXCEPT !.condition = c] : c \in ConditionInputs }

ValidateCondition ==
    /\ ~verdict.checked
    /\ verdict' = [ condition |-> verdict.condition,
                    checked |-> TRUE,
                    is_valid |-> validate_condition(verdict.condition).is_valid,
                    error |-> validate_condition(verdict.condition).error ]
    /\ UNCHANGED <<rotation, call, imported, condition_parts, current_class>>

NextValidate == ValidateCondition

SpecValidate == InitValidate /\ [][NextValidate]_vars

(***************************************************************************)
(* src/core/validator.py: RotationValidator                                *)
(***************************************************************************)
CRITICAL_SPELLS ==
  (  "Mage" :>
        (  "Arcane" :> <<"Arcane Blast", "Arcane Missiles", "Evocation">>
        @@ "Fire" :> <<"Fireball", "Pyroblast", "Fire Blast">>
        @@ "Frost" :> <<"Frostbolt", "Ice Lance", "Frozen Orb">> )
  @@ "Paladin" :>
        (  "Holy" :> <<"Holy Light", "Divine Light", "Holy Shock">>
        @@ "Protection" :> <<"Shield of the Righteous", "Avenger's Shield", "Judgment">>
        @@ "Retribution" :> <<"Templar's Verdict", "Crusader Strike", "Judgment">> )
  @@ "Warrior" :>
        (  "Arms" :> <<"Mortal Strike", "Colossus Smash", "Execute">>
        @@ "Fury" :> <<"Bloodthirst", "Wild Strike", "Raging Blow">>
        @@ "Protection" :> <<"Shield Slam", "Revenge", "Thunder Clap">> )
  @@ "Druid" :>
        (  "Balance" :> <<"Wrath", "Starfire", "Starsurge">>
        @@ "Feral" :> <<"Rake", "Shred", "Rip">>
        @@ "Guardian" :> <<"Mangle", "Thrash", "Savage Defense">>
        @@ "Restoration" :> <<"Rejuvenation", "Healing Touch", "Swiftmend">> )
  @@ "Death Knight" :>
        (  "Blood" :> <<"Death Strike", "Heart Strike", "Blood Boil">>
        @@ "Frost" :> <<"Obliterate", "Frost Strike", "Howling Blast">>
        @@ "Unholy" :> <<"Scourge Strike", "Festering Strike", "Death Coil">> )
  @@ "Hunter" :>
        (  "Beast Mastery" :> <<"Kill Command", "Arcane Shot", "Cobra Shot">>
        @@ "Marksmanship" :> <<"Chimera Shot", "Aimed Shot", "Steady Shot">>
        @@ "Survival" :> <<"Explosive Shot", "Black Arrow", "Arcane Shot">> )
  @@ "Priest" :>
        (  "Discipline" :> <<"Penance", "Power Word: Shield", "Prayer of Mending">>
        @@ "Holy" :> <<"Prayer of Mending", "Circle of Healing", "Holy Word: Sanctuary">>
        @@ "Shadow" :> <<"Mind Blast", "Mind Flay", "Shadow Word: Pain">> )
  @@ "Rogue" :>
        (  "Assassination" :> <<"Mutilate", "Envenom", "Rupture">>
        @@ "Combat" :> <<"Sinister Strike", "Eviscerate", "Revealing Strike">>
        @@ "Subtlety" :> <<"Backstab", "Hemorrhage", "Eviscerate">> )
  @@ "Shaman" :>
        (  "Elemental" :> <<"Lightning Bolt", "Lava Burst", "Earth Shock">>
        @@ "Enhancement" :> <<"Stormstrike", "Lava Lash", "Lightning Bolt">>
        @@ "Restoration" :> <<"Healing Wave", "Riptide", "Chain Heal">> )
  @@ "Warlock" :>
        (  "Affliction" :> <<"Agony", "Corruption", "Malefic Grasp">>
        @@ "Demonology" :> <<"Shadow Bolt", "Hand of Gul'dan", "Soul Fire">>
        @@ "Destruction" :> <<"Incinerate", "Chaos Bolt", "Immolate">> )
  @@ "Monk" :>
        (  "Brewmaster" :> <<"Keg Smash", "Blackout Kick", "Guard">>
        @@ "Windwalker" :> <<"Tiger Palm", "Rising Sun Kick", "Fists of Fury">>
        @@ "Mistweaver" :> <<"Soothing Mist", "Enveloping Mist", "Renewing Mist">> ) )

DEFENSIVE_SPELLS ==
  (  "Mage" :> <<"Ice Block", "Frost Nova", "Blink">>
  @@ "Paladin" :> <<"Divine Shield", "Hand of Protection", "Divine Protection">>
  @@ "Warrior" :> <<"Shield Wall", "Last Stand", "Spell Reflection">>
  @@ "Druid" :> <<"Barkskin", "Survival Instincts", "Frenzied Regeneration">>
  @@ "Death Knight" :> <<"Anti-Magic Shell", "Icebound Fortitude", "Vampiric Blood">>
  @@ "Hunter" :> <<"Deterrence", "Disengage", "Feign Death">>
  @@ "Priest" :> <<"Dispersion", "Pain Suppression", "Guardian Spirit">>
  @@ "Rogue" :> <<"Cloak of Shadows", "Evasion", "Combat Readiness">>
  @@ "Shaman" :> <<"Astral Shift", "Shamanistic Rage", "Healing Stream Totem">>
  @@ "Warlock" :> <<"Unending Resolve", "Dark Bargain", "Sacrificial Pact">>
  @@ "Monk" :> <<"Fortifying Brew", "Guard", "Touch of Karma">> )

COOLDOWN_SPELLS ==
  (  "Mage" :> <<"Time Warp", "Mirror Image", "Arcane Power", "Combustion", "Icy Veins">>
  @@ "Paladin" :> <<"Avenging Wrath", "Guardian of Ancient Kings", "Holy Avenger">>
  @@ "Warrior" :> <<"Recklessness", "Bladestorm", "Avatar">>
  @@ "Druid" :> <<"Incarnation", "Nature's Vigil", "Force of Nature">>
  @@ "Death Knight" :> <<"Pillar of Frost", "Dancing Rune Weapon", "Summon Gargoyle">>
  @@ "Hunter" :> <<"Rapid Fire", "Bestial Wrath", "Stampede">>
  @@ "Priest" :> <<"Power Infusion", "Shadowfiend", "Divine Hymn">>
  @@ "Rogue" :> <<"Adrenaline Rush", "Shadow Dance", "Vendetta">>
  @@ "Shaman" :> <<"Ascendance", "Stormlash Totem", "Fire Elemental Totem">>
  @@ "Warlock" :> <<"Dark Soul", "Summon Doomguard", "Grimoire of Service">>
  @@ "Monk" :> <<"Energizing Brew", "Tigereye Brew", "Thunder Focus Tea">> )

\* CRITICAL_SPELLS.get(class_name, {}).get(spec_name, [])
critical_spells_of(class_name, spec_name) ==
    IF class_name \in DOMAIN CRITICAL_SPELLS
       /\ spec_name \in DOMAIN CRITICAL_SPELLS[class_name]
    THEN CRITICAL_SPELLS[class_name][spec_name] ELSE <<>>

\* DEFENSIVE_SPELLS.get(class_name, []) and COOLDOWN_SPELLS.get(class_name, [])
class_list(table, class_name) ==
    IF class_name \in DOMAIN table THEN table[class_name] ELSE <<>>

\* set(list)
Elements(list) == { list[i] : i \in 1..Len(list) }

\* The number of entries whose name is in the list
CountIn(spells, list) ==
    Cardinality({ i \in 1..Len(spells) : spells[i].name \in Elements(list) })

\* The names that occur more than once among the entries
Duplicates(spells) ==
    { spells[i].name : i \in { k \in 1..Len(spells) :
                                 \E j \in 1..Len(spells) :
                                    j # k /\ spells[j].name = spells[k].name } }

\* The errors of validate_rotation in the order they are appended: missing
\* critical spells, empty conditions, then one per entry whose condition the
\* condition validator rejects.  A message is its fixed text and what is
\* formatted into it (a joined set is kept as the set: its order is not fixed).
validation_errors(r) ==
    LET critical == critical_spells_of(r.metadata.class_name, r.metadata.spec_name)
        found == { r.spells[i].name : i \in 1..Len(r.spells) } \cap Elements(critical)
        missing == Elements(critical) \ found
        IsEmpty(e) == e.condition = <<>>
        IsRejected(e) == ~validate_condition(e.condition).is_valid
        empty == SelectSeq(r.spells, IsEmpty)
        rejected == SelectSeq(r.spells, IsRejected)
    IN (IF missing # {}
        THEN << [kind |-> "Missing critical spells", detail |-> missing] >> ELSE <<>>)
       \o (IF empty # <<>>
           THEN << [ kind |-> "Empty conditions found for",
                     detail |-> [i \in 1..Len(empty) |-> empty[i].name] ] >>
           ELSE <<>>)
       \o [ i \in 1..Len(rejected) |->
              [ kind |-> "Invalid condition for",
                detail |-> << rejected[i].name,
                              validate_condition(rejected[i].condition).error >> ] ]

\* The warnings of validate_rotation in the order they are appended
validation_warnings(r) ==
    (IF CountIn(r.spells, class_list(DEFENSIVE_SPELLS, r.metadata.class_name)) = 0
     THEN << [kind |-> "No defensive abilities in rotation", detail |-> {}] >> ELSE <<>>)
    \o (IF CountIn(r.spells, class_list(COOLDOWN_SPELLS, r.metadata.class_name)) = 0
        THEN << [kind |-> "No cooldown abilities in rotation", detail |-> {}] >> ELSE <<>>)
    \o (IF Duplicates(r.spells) # {}
        THEN << [kind |-> "Duplicate spells found", detail |-> Duplicates(r.spells)] >>
        ELSE <<>>)

\* The stats of validate_rotation
validation_stats(r) ==
    [ spell_count |-> Len(r.spells),
      critical_spells |->
        CountIn(r.spells, critical_spells_of(r.metadata.class_name, r.metadata.spec_name)),
      defensive_spells |->
        CountIn(r.spells, class_list(DEFENSIVE_SPELLS, r.metadata.class_name)),
      cooldown_spells |->
        CountIn(r.spells, class_list(COOLDOWN_SPELLS, r.metadata.class_name)),
      conditional_spells |->
        Cardinality({ i \in 1..Len(r.spells) : r.spells[i].condition # ConditionTrue }) ]

\* A ValidationResult that is valid only without warnings as well
ValidationResult_no_warnings(errors, warnings, stats) ==
    [ is_valid |-> Len(errors) = 0 /\ Len(warnings) = 0, errors |-> errors,
      warnings |-> warnings, stats |-> stats ]

\* The ValidationResult from the two lists
ValidationResult(errors, warnings, stats) ==
    [ is_valid |-> Len(errors) = 0, errors |-> errors, warnings |-> warnings,
      stats |-> stats ]

\* RotationValidator.validate_rotation: the result, and the Rotation as the
\* call leaves it (no statement of the method assigns to it).
validate_rotation(r) ==
    [ rotation |-> r,
      result |-> ValidationResult(validation_errors(r),
                                  validation_warnings(r), validation_stats(r)) ]

(***************************************************************************)
(* The validation model: a Rotation of the class and spec is there (built  *)
(* by the editor or loaded from a file, whose entries from_dict takes as   *)
(* they are), then validate_rotation is called on it.                      *)
(***************************************************************************)
\* The names of the entries: the critical spells of the spec, one defensive
\* and one cooldown spell of the class, and further copies of the first.
CheckedNames ==
    critical_spells_of(TheClass, TheSpec) \o <<"Guardian Spirit", "Divine Hymn">>
    \o [i \in 1..(MaxCopies - 1) |-> critical_spells_of(TheClass, TheSpec)[1]]

\* The conditions of the entries: "true", the empty string, and one the
\* condition validator rejects.
CheckedConditions == { ConditionTrue, <<>>, ConditionUnspaced }

\* The entries of the names picked, in the order of CheckedNames, with
\* priorities 1..N.
RECURSIVE Picked(_, _, _)
Picked(picked, conditions, from) ==
    IF from > Len(CheckedNames) THEN <<>>
    ELSE IF from \notin picked THEN Picked(picked, conditions, from + 1)
    ELSE << [ obj |-> from, name |-> CheckedNames[from],
              condition |-> conditions[from],
              priority |-> Cardinality({ k \in picked : k <= from }),
              enabled |-> TRUE, notes |-> <<>> ] >>
         \o Picked(picked, conditions, from + 1)

CheckedRotations ==
    { [ NewRotation(TheClass, TheSpec, 0) EXCEPT !.spells = Picked(picked, conditions, 1) ] :
        <<picked, conditions>> \in
           UNION { {p} \X [p -> CheckedConditions] : p \in SUBSET (1..Len(CheckedNames)) } }

InitCheck ==
    /\ rotation \in CheckedRotations
    /\ call = NoCall
    /\ InitIdle

ValidateRotation ==
    /\ call.op = "none"
    /\ rotation' = validate_rotation(rotation).rotation
    /\ call' = [ op |-> "validate_rotation", args |-> <<rotation>>,
                 result |-> validate_rotation(rotation).result,
                 message |-> <<>>, dense_before |-> PriorityInvariant(rotation.spells) ]
    /\ UNCHANGED <<imported, condition_parts, current_class, verdict>>

NextCheck == ValidateRotation

SpecCheck == InitCheck /\ [][NextCheck]_vars

(***************************************************************************)
(* The decomposition model: a condition is written from its clauses and    *)
(* joining operators, then parse_condition is called on the text.          *)
(***************************************************************************)
Bare(negated, text) ==
    [not |-> negated, condition |-> text, operator |-> None, value |-> None]
Comparison(negated, path, operator, value) ==
    [not |-> negated, condition |-> path, operator |-> operator, value |-> value]

\* Clauses: bare paths, comparisons of a path with a number, and a clause
\* that is neither (a path with a call suffix).
ParseClauses ==
    { Bare(FALSE, <<"player", ".", "moving">>),
      Bare(TRUE, <<"player", ".", "moving">>),
      Bare(FALSE, <<"true">>),
      Bare(FALSE, <<"player", ".", "moving", "(", ")">>),
      Comparison(FALSE, <<"player", ".", "health">>, <<">">>, <<"30">>),
      Comparison(TRUE, <<"player", ".", "health">>, <<">", "=">>, <<"30">>),
      Comparison(FALSE, <<"target", ".", "health", ".", "actual">>, <<"=", "=">>, <<"0">>),
      Comparison(FALSE, <<"player", ".", "health", ".", "a1">>, <<">">>, <<"2">>),
      Comparison(FALSE, <<"player", ".", "health">>, <<">">>, <<"1", ".", "5">>) }

ParseInputs ==
    UNION { [ clauses : [1..n -> ParseClauses],
              joins : [1..(n - 1) -> { <<"&", "&">>, <<"|", "|">> }] ] :
            n \in 1..MaxClauses }

\* The text of a clause: "!" directly before the path, single spaces around
\* the comparison operator.
ClauseText(c) ==
    (IF c.not THEN <<"!">> ELSE <<>>) \o c.condition
    \o (IF c.operator = None THEN <<>>
        ELSE <<" ">> \o c.operator \o <<" ">> \o c.value)

\* The text of a condition: the clauses, " && " or " || " between them.
RECURSIVE ConditionText(_, _)
ConditionText(clauses, joins) ==
    IF Len(clauses) = 1 THEN ClauseText(clauses[1])
    ELSE ClauseText(clauses[1]) \o <<" ">> \o joins[1] \o <<" ">>
         \o ConditionText(Tail(clauses), Tail(joins))

\* The condition is written first, then parse_condition is called on it.
InitParse ==
    /\ rotation = NewRotation(TheClass, TheSpec, 0)
    /\ call \in { [ op |-> "none", args |-> << ConditionText(x.clauses, x.joins) >>,
                    result |-> "none", message |-> <<>>, dense_before |-> TRUE,
                    written |-> x, components |-> <<>> ] : x \in ParseInputs }
    /\ InitIdle

ParseCondition ==
    /\ call.op = "none"
    /\ call' = [ call EXCEPT !.op = "parse_condition", !.result = "ok",
                             !.components = parse_condition(call.args[1]) ]
    /\ UNCHANGED <<rotation, imported, condition_parts, current_class, verdict>>

NextParse == ParseCondition

SpecParse == InitParse /\ [][NextParse]_vars

(***************************************************************************)
(* The claims                                                              *)
(***************************************************************************)

\* C1: after any sequence of add_spell / remove_spell / move_spell calls, with
\* any integer priority arguments, the priorities are exactly 1..N and the
\* list is in ascending priority order.
C1_PriorityInvariantAlways == PriorityInvariant(rotation.spells)

\* C2: a failed call leaves the Rotation exactly as it was: add_spell that
\* raises (unknown spell, invalid condition), update_spell that raises on an
\* invalid condition, remove_spell and move_spell that return False change no
\* entry, no priority, not the list order and not modified_at.
C2_FailedCallLeavesRotation ==
    [][ call'.result \in {"UnknownSpell", "InvalidCondition", "False"}
            => rotation' = rotation ]_vars

\* An add_spell raised on its condition with a priority at or below an
\* existing one (a shift was due), and the clock could have moved.
C2_Witness ==
    /\ call.op = "add_spell"
    /\ call.result = "InvalidCondition"
    /\ call.args.priority # <<>>
    /\ \E i \in 1..Len(rotation.spells) :
          rotation.spells[i].priority >= call.args.priority[1]
    /\ rotation.metadata.modified_at < MaxTime

\* The fields the exporters write agree: spec_id, every metadata field, and
\* entry by entry the name, condition, priority, enabled and notes.
SameRotation(a, b) ==
    /\ a.spec_id = b.spec_id
    /\ a.metadata = b.metadata
    /\ Len(a.spells) = Len(b.spells)
    /\ \A i \in 1..Len(a.spells) :
          /\ a.spells[i].name = b.spells[i].name
          /\ a.spells[i].condition = b.spells[i].condition
          /\ a.spells[i].priority = b.spells[i].priority
          /\ a.spells[i].enabled = b.spells[i].enabled
          /\ a.spells[i].notes = b.spells[i].notes

\* C3: the JSON round trip is lossless.  For a Rotation with priorities 1..N
\* in list order (0, 1 or more entries), from_json(to_json(r)) succeeds and
\* has the same spec_id, the same value of every metadata field (modified_at
\* among them) and the same entries.
C3_JsonRoundTrip ==
    (call.op = "from_json" /\ PriorityInvariant(rotation.spells))
        => imported.status = "ok" /\ SameRotation(imported.rotation, rotation)

\* C4: the XML round trip is full fidelity.  For a Rotation with priorities
\* 1..N in list order, from_xml(to_xml(r)) succeeds and has the same metadata
\* and the same entries, also when author, description, notes or a condition
\* is the empty string.
C4_XmlRoundTrip ==
    (call.op = "from_xml" /\ PriorityInvariant(rotation.spells))
        => imported.status = "ok" /\ SameRotation(imported.rotation, rotation)

\* C5: validate_condition accepts every condition of the documented grammar:
\* recognized paths, bare or followed by " <op> <number>", joined by " && "
\* or " || ".
C5_GrammarAccepted ==
    (verdict.checked /\ verdict.condition \in GrammarConditions) => verdict.is_valid

\* The parts read clause (logical-operator clause)*, a clause being a part
\* made by add_condition_part, with or without a "!" part before it.
IsClausePart(p) == p \notin LogicalArgs /\ p # <<"!">>

RECURSIVE ClauseThenRest(_)
ClauseThenRest(parts) ==
    /\ parts # <<>>
    /\ LET body == IF Head(parts) = <<"!">> THEN Tail(parts) ELSE parts IN
       /\ body # <<>>
       /\ IsClausePart(Head(body))
       /\ \/ Len(body) = 1
          \/ /\ body[2] \in LogicalArgs
             /\ ClauseThenRest(SubSeq(body, 3, Len(body)))

NonDangling(parts) == ClauseThenRest(parts)

\* C6: whatever calls built it, a non-dangling expression of the builder is
\* accepted by validate_condition.
C6_BuiltConditionValid ==
    NonDangling(condition_parts) => builder_validate(condition_parts).is_valid

\* C7: add_spell placement, on a list whose priorities are 1..N in list
\* order.  With the priority omitted the new entry gets priority len+1 and
\* is last.  With a priority p at or below an existing one, every existing
\* entry with priority >= p goes up by exactly one, the others keep theirs,
\* the new entry has p, and the priorities are 1..N in list order afterwards.
C7_AddSpellPlacement ==
    [][ ( /\ call'.op = "add_spell" /\ call'.result = "ok"
          /\ PriorityInvariant(rotation.spells) ) =>
          LET old == rotation.spells
              new == rotation'.spells
              p == call'.args.priority
              IsNew(e) == \A i \in 1..Len(old) : old[i].obj # e.obj
          IN /\ Len(new) = Len(old) + 1
             /\ p = <<>> =>
                  /\ IsNew(new[Len(new)])
                  /\ new[Len(new)].priority = Len(old) + 1
             /\ (p # <<>> /\ \E i \in 1..Len(old) : old[i].priority >= p[1]) =>
                  /\ \A i \in 1..Len(old) : \E j \in 1..Len(new) :
                        new[j] = [old[i] EXCEPT !.priority =
                                     IF @ >= p[1] THEN @ + 1 ELSE @]
                  /\ \E j \in 1..Len(new) : IsNew(new[j]) /\ new[j].priority = p[1]
                  /\ PriorityInvariant(new) ]_vars

\* An entry after remove_spell(p) closed the gap above p.
Closed(e, p) == IF e.priority > p THEN [e EXCEPT !.priority = @ - 1] ELSE e

\* C8: remove_spell(p).  If an entry has priority p, one such entry is
\* removed, every entry with priority > p goes down by exactly one, the
\* other entries and the order of those that remain are unchanged, and
\* the call returns True; if none has priority p it returns False.
C8_RemoveSpell ==
    [][ call'.op = "remove_spell" =>
          LET old == rotation.spells
              new == rotation'.spells
              p == call'.args.priority
          IN IF \E i \in 1..Len(old) : old[i].priority = p
             THEN /\ call'.result = "True"
                  /\ Len(new) = Len(old) - 1
                  /\ \E i \in 1..Len(old) :
                        /\ old[i].priority = p
                        /\ \A k \in 1..Len(new) :
                              new[k] = Closed(old[IF k < i THEN k ELSE k + 1], p)
             ELSE call'.result = "False" ]_vars

\* remove_spell(1) found its entry in a list of three in priority order:
\* the two that remain were both above it.
C8_Witness ==
    /\ call.op = "remove_spell"
    /\ call.result = "True"
    /\ call.args.priority = 1
    /\ call.dense_before
    /\ Len(rotation.spells) = 2

\* C9: move_spell(from, to), from # to, both in 1..N, on priorities 1..N in
\* list order.  The moved entry has priority `to` and is at position `to`;
\* the entries from `to` up to but not including `from` move by exactly one
\* towards `from`; the others stay; nothing else of any entry changes, so
\* the order of the entries not moved and the set of entries are kept.
C9_MoveSpell ==
    [][ LET old == rotation.spells
            new == rotation'.spells
            N == Len(old)
            f == call'.args.from_priority
            g == call'.args.to_priority
            Dest(k) == IF k = f THEN g
                       ELSE IF f < g /\ f < k /\ k <= g THEN k - 1
                       ELSE IF g < f /\ g <= k /\ k < f THEN k + 1
                       ELSE k
        IN ( /\ call'.op = "move_spell"
             /\ f # g /\ f \in 1..N /\ g \in 1..N
             /\ PriorityInvariant(old) )
           => /\ call'.result = "True"
              /\ Len(new) = N
              /\ \A k \in 1..N : new[Dest(k)] = [old[k] EXCEPT !.priority = Dest(k)]
      ]_vars

\* A move across two entries of a list of three in priority order.
C9_Witness ==
    /\ call.op = "move_spell"
    /\ call.dense_before
    /\ Len(rotation.spells) = 3
    /\ {call.args.from_priority, call.args.to_priority} = {1, 3}

\* C10: move_spell(p, p) returns True and changes nothing, whatever the
\* Rotation and whatever p: not the entries, their priorities, the list
\* order or modified_at.
C10_MoveToSamePriority ==
    [][ ( /\ call'.op = "move_spell"
          /\ call'.args.from_priority = call'.args.to_priority )
        => call'.result = "True" /\ rotation' = rotation ]_vars

\* move_spell(p, p) was called with an entry at p, at a time when the clock
\* could have moved past modified_at.
C10_Witness ==
    /\ call.op = "move_spell"
    /\ call.args.from_priority = call.args.to_priority
    /\ \E i \in 1..Len(rotation.spells) :
          rotation.spells[i].priority = call.args.from_priority
    /\ rotation.metadata.modified_at < MaxTime

\* C11: move_spell(from, to) where no entry has priority `from` returns False
\* and leaves the Rotation unchanged, for every `to`, `to` = `from` included.
C11_MoveFromMissing ==
    [][ ( /\ call'.op = "move_spell"
          /\ \A i \in 1..Len(rotation.spells) :
                rotation.spells[i].priority # call'.args.from_priority )
        => call'.result = "False" /\ rotation' = rotation ]_vars

\* C12: the priorities are exactly 1..len in list order also after every
\* successful update_spell on a list where they were, whatever fields are
\* passed, a `priority` field included.
C12_UpdateKeepsPriorityInvariant ==
    [][ ( /\ call'.op = "update_spell" /\ call'.result = "True"
          /\ PriorityInvariant(rotation.spells) )
        => PriorityInvariant(rotation'.spells) ]_vars

\* A call that mutates: add_spell that succeeded, remove_spell or
\* update_spell that found its entry, move_spell that found its entry and
\* was given two different priorities.
Mutating(c) ==
    \/ c.op = "add_spell" /\ c.result = "ok"
    \/ c.op = "remove_spell" /\ c.result = "True"
    \/ c.op = "update_spell" /\ c.result = "True"
    \/ /\ c.op = "move_spell" /\ c.result = "True"
       /\ c.args.from_priority # c.args.to_priority

\* C13: every mutating call sets modified_at to the clock reading of that
\* call, and the entries change in no other call, so modified_at is never
\* older than the last change to the entries.
C13_MutationTouchesModifiedAt ==
    [][ /\ Mutating(call') =>
            rotation'.metadata.modified_at \in ClockReadings(rotation)
        /\ rotation'.spells # rotation.spells => Mutating(call') ]_vars

\* update_spell found its entry at a clock reading later than the
\* Rotation's construction.
C13_Witness ==
    /\ call.op = "update_spell"
    /\ call.result = "True"
    /\ "notes" \in DOMAIN call.args.kwargs
    /\ rotation.metadata.modified_at > rotation.metadata.created_at + 1

\* C14: add_spell raises the unknown-spell error whenever the name is not
\* among the catalog's spells of the Rotation's class and spec, whatever the
\* condition; it raises the invalid-condition error, with the reason
\* validate_condition gave, whenever the name is legal and the condition is
\* not valid; it succeeds only when both checks pass.
C14_AddSpellErrors ==
    [][ call'.op = "add_spell" =>
          LET a == call'.args
              legal == a.spell_name \in
                         get_spells_for_spec(rotation.metadata.class_name,
                                             rotation.metadata.spec_name)
              v == validate_condition(a.condition)
          IN IF ~legal
             THEN /\ call'.result = "UnknownSpell"
                  /\ call'.message = SpellNotFound(rotation, a.spell_name)
             ELSE IF ~v.is_valid
             THEN /\ call'.result = "InvalidCondition"
                  /\ call'.message = InvalidConditionMessage(v.error)
             ELSE call'.result = "ok" ]_vars

\* add_spell was given an unknown spell together with an invalid condition.
C14_Witness ==
    /\ call.op = "add_spell"
    /\ call.result = "UnknownSpell"
    /\ call.args.spell_name = "Fireball"
    /\ ~validate_condition(call.args.condition).is_valid

\* C15: a negated clause is valid: validate_condition accepts "!P" for every
\* recognized bare path P, and "Q && !P".
C15_NegatedClauseAccepted ==
    (verdict.checked /\ verdict.condition \in NegatedConditions) => verdict.is_valid

\* C16: the vocabulary is the global categories plus the per-class tables:
\* a clause class.subcategory of a class table passes the component check,
\* and a clause whose category is in neither is rejected.
C16_ClassVocabulary ==
    verdict.checked =>
        /\ verdict.condition \in ClassClauses =>
              verdict.error # "Invalid condition components"
        /\ verdict.condition = ConditionUnknown => ~verdict.is_valid

\* The operator tokens, longest first: at position i a two-character
\* operator, or a one-character operator that is not part of one.
TwoCharOperators ==
    { <<">", "=">>, <<"<", "=">>, <<"=", "=">>, <<"!", "=">>, <<"&", "&">>, <<"|", "|">> }
OneCharOperators == { ">", "<", "!" }
StartsTwoChar(s, i) == i + 1 <= Len(s) /\ <<s[i], s[i + 1]>> \in TwoCharOperators
OperatorAt(s, i) ==
    \/ StartsTwoChar(s, i)
    \/ /\ s[i] \in OneCharOperators
       /\ ~(i > 1 /\ StartsTwoChar(s, i - 1))
\* The occurrence at i has a space on each side, or is a "!" that begins s.
SpacedAt(s, i) ==
    LET n == IF StartsTwoChar(s, i) THEN 2 ELSE 1 IN
    /\ \/ i > 1 /\ s[i - 1] = " "
       \/ i = 1 /\ s[i] = "!" /\ n = 1
    /\ i + n <= Len(s) /\ s[i + n] = " "
AllOperatorsSpaced(s) ==
    \A i \in 1..Len(s) : OperatorAt(s, i) => SpacedAt(s, i)

\* C17: in every condition validate_condition accepts, every occurrence of
\* an operator has a space on each side (or is a "!" that begins the text):
\* one occurrence without them is enough for the condition to be rejected.
C17_AcceptedOperatorsSpaced ==
    (verdict.checked /\ verdict.is_valid)
        => AllOperatorsSpaced(strip(verdict.condition))

\* C18 as stated: 'player.health > 30 &&' is rejected, and by the component
\* check.
C18_DanglingRejectedByComponents ==
    (verdict.checked /\ verdict.condition = ConditionDangling)
        => /\ ~verdict.is_valid
           /\ verdict.error = "Invalid condition components"

\* The reason of the earliest failing check of text, in the order lexical,
\* operator usage, parentheses, components; "" when none fails.
FirstFailure(text) ==
    IF ~check_basic_syntax(text) THEN "Invalid condition syntax"
    ELSE IF ~validate_operators(text) THEN "Invalid operator usage"
    ELSE IF ~validate_parentheses(text) THEN "Mismatched parentheses"
    ELSE IF ~validate_components(text) THEN "Invalid condition components"
    ELSE ""

\* C19 as stated: validate_condition returns (valid, no reason) for the
\* empty string and for 'true', and for every other string the reason of
\* the earliest failing check of that string, valid when none fails.
C19_FirstFailingCheckOfTheString ==
    verdict.checked =>
        LET c == verdict.condition
            reason == IF c = <<>> \/ c = ConditionTrue THEN "" ELSE FirstFailure(c)
        IN /\ verdict.error = reason
           /\ verdict.is_valid <=> reason = ""

\* C19 amended: the checks are made on the string without its surrounding
\* whitespace.  validate_condition returns (valid, no reason) for the empty
\* string and for every string that is 'true' once stripped, and for every
\* other string the reason of the earliest failing check of the stripped
\* string, valid when none fails.
C19_FirstFailingCheckOfStripped ==
    verdict.checked =>
        LET c == verdict.condition
            reason == IF c = <<>> \/ strip(c) = ConditionTrue THEN ""
                      ELSE FirstFailure(strip(c))
        IN /\ verdict.error = reason
           /\ verdict.is_valid <=> reason = ""

\* A condition that fails the operator check and the parenthesis check was
\* rejected for its operators.
C19_Witness ==
    /\ verdict.checked
    /\ ~validate_operators(verdict.condition)
    /\ ~validate_parentheses(verdict.condition)
    /\ verdict.error = "Invalid operator usage"

\* C18 amended: 'player.health > 30 &&' is rejected, and the check that
\* rejects it is the operator check, which comes before the component check:
\* the "&&" that ends the text has no space after it.
C18_DanglingRejectedByOperators ==
    (verdict.checked /\ verdict.condition = ConditionDangling)
        => /\ ~verdict.is_valid
           /\ verdict.error = "Invalid operator usage"

\* validate_condition was called on 'player.health > 30 &&'.
C18_Witness ==
    /\ verdict.checked
    /\ verdict.condition = ConditionDangling

\* The dates of a Rotation put aside: the export of a date is no structural
\* content.
Undated(r) == [r EXCEPT !.metadata.created_at = 0, !.metadata.modified_at = 0]

\* The structural content of a JSON object or an XML tree: the header values
\* and, for each entry in turn, name, condition, priority and notes.
Structure(doc) ==
    [ name |-> doc.metadata.name, author |-> doc.metadata.author,
      version |-> doc.metadata.version, description |-> doc.metadata.description,
      spells |-> [ i \in 1..Len(doc.spells) |->
                     [ name |-> doc.spells[i].name,
                       condition |-> doc.spells[i].condition,
                       priority |-> doc.spells[i].priority,
                       notes |-> doc.spells[i].notes ] ] ]

DistinctNames(spells) ==
    \A i, j \in 1..Len(spells) : spells[i].name = spells[j].name => i = j

\* What was exported is exported again from what the import made of it, with
\* the same structural content.
Reexported(op) ==
    /\ imported.status = "ok"
    /\ op = "from_soe" =>
         to_soe(Undated(imported.rotation)) = to_soe(Undated(rotation))
    /\ op = "from_json" =>
         Structure(to_json(imported.rotation)) = Structure(to_json(rotation))
    /\ op = "from_xml" =>
         Structure(to_xml(imported.rotation)) = Structure(to_xml(rotation))
    /\ op = "from_lua" =>
         to_lua(Undated(imported.rotation)) = to_lua(Undated(rotation))

\* C20: same-adapter idempotence.  For each of the four adapters (SOE, JSON,
\* XML, Lua) and the text the adapter's exporter writes for a valid Rotation
\* (priorities 1..N in list order, no name twice), the import of the text
\* succeeds and its export has the same structural content as the text: the
\* same name, author, version and description where the format has them, and
\* the same entries with the same names, conditions, priorities and notes.
C20_SameAdapterIdempotence ==
    ( /\ call.op \in {"from_soe", "from_json", "from_xml", "from_lua"}
      /\ PriorityInvariant(rotation.spells)
      /\ DistinctNames(rotation.spells) )
        => Reexported(call.op)


\* The entries a registration text holds, read off the text: name and
\* condition of every { "name", "condition" } tuple, in file order.
SoeTuplePattern ==
    << Lit("{"), WsQuoted(TRUE), Lit(","), WsQuoted(FALSE), WsLit("}") >>
SoeEmitted(text) ==
    LET found == FindAll(text, 1, SoeTuplePattern) IN
    [ i \in 1..Len(found) |->
        [ name |-> Spelled(found[i][1]), condition |-> found[i][2] ] ]

\* The entries a plain-table text holds, read off the text: name, condition
\* and priority of every spell table, in file order.
LuaTablePattern ==
    << Lit("{"), WsLit("name"), WsLit("="), WsQuoted(TRUE), Lit(","),
       WsLit("condition"), WsLit("="), WsQuoted(FALSE), Lit(","),
       WsLit("priority"), WsLit("="), Digits(TRUE), Lit(","),
       WsLit("notes"), WsLit("="), WsQuoted(FALSE) >>
LuaEmitted(text) ==
    LET found == FindAll(text, 1, LuaTablePattern) IN
    [ i \in 1..Len(found) |->
        [ name |-> Spelled(found[i][1]), condition |-> found[i][2],
          priority |-> NumeralValue(found[i][3][1]) ] ]

\* The enabled entries of a list, in list order.
RECURSIVE EnabledOf(_)
EnabledOf(spells) ==
    IF spells = <<>> THEN <<>>
    ELSE (IF Head(spells).enabled THEN << Head(spells) >> ELSE <<>>)
         \o EnabledOf(Tail(spells))

NameCondition(spells) ==
    [ i \in 1..Len(spells) |->
        [ name |-> spells[i].name, condition |-> spells[i].condition ] ]
NameConditionPriority(spells) ==
    [ i \in 1..Len(spells) |->
        [ name |-> spells[i].name, condition |-> spells[i].condition,
          priority |-> spells[i].priority ] ]

\* C21: to_soe and to_lua emit exactly the enabled entries of the Rotation,
\* in list order, and no disabled entry; and the plain-table text made from
\* a Rotation that came through JSON (to_json, from_json, to_lua) holds name,
\* condition and priority of every enabled entry and no disabled one.
C21_OnlyEnabledEmitted ==
    /\ SoeEmitted(to_soe(rotation)) = NameCondition(EnabledOf(rotation.spells))
    /\ LuaEmitted(to_lua(rotation)) = NameConditionPriority(EnabledOf(rotation.spells))
    /\ (call.op = "from_json" /\ imported.status = "ok")
         => LuaEmitted(to_lua(imported.rotation))
              = NameConditionPriority(EnabledOf(rotation.spells))

\* An export of a Rotation with an enabled entry after a disabled one, and
\* its conversion from JSON to the plain table.
C21_Witness ==
    /\ call.op = "from_json" /\ imported.status = "ok"
    /\ Len(rotation.spells) = 2
    /\ ~rotation.spells[1].enabled /\ rotation.spells[2].enabled


\* The registration inputs of the claim: a catalog spec id, and tuples whose
\* names are legal for the class and spec of the id and whose conditions the
\* validator accepts.
LegalSoeInputs ==
    { x \in SoeInputs :
        /\ SpecOfId(x.id) # {}
        /\ \A pair \in SpecOfId(x.id) : \A i \in 1..Len(x.tuples) :
              /\ x.tuples[i].name \in get_spells_for_spec(pair[1], pair[2])
              /\ validate_condition(x.tuples[i].condition).is_valid }

\* C22: the import of a registration text.  For a text with register(<id>, {
\* and k tuples { "name", "condition" }, <id> a catalog spec id, the names
\* legal and the conditions valid, both RotationImporter.from_soe and
\* Rotation.from_soe_format return a Rotation with spec_id = <id>, with the
\* class and spec that get_spec_id maps to <id>, and with k entries, the i-th
\* tuple of the text at priority i.
C22_SoeImport ==
    \A x \in LegalSoeInputs :
        ( /\ call.op \in {"from_soe", "from_soe_format"}
          /\ call.args = << SoeText(x.id, x.tuples) >> )
        => /\ imported.status = "ok"
           /\ imported.rotation.spec_id = x.id
           /\ get_spec_id(imported.rotation.metadata.class_name,
                          imported.rotation.metadata.spec_name) = x.id
           /\ Len(imported.rotation.spells) = Len(x.tuples)
           /\ \A i \in 1..Len(x.tuples) :
                 /\ imported.rotation.spells[i].name = x.tuples[i].name
                 /\ imported.rotation.spells[i].condition = x.tuples[i].condition
                 /\ imported.rotation.spells[i].priority = i


\* The plain-table inputs of the claim: a class and spec of the catalog, and
\* tables whose names are legal and whose conditions the validator accepts.
LegalLuaInputs ==
    { x \in LuaInputs :
        /\ valid_spec(x.spec[1], x.spec[2])
        /\ \A i \in 1..Len(x.tables) :
              /\ x.tables[i].name \in get_spells_for_spec(x.spec[1], x.spec[2])
              /\ validate_condition(x.tables[i].condition).is_valid }

\* C23: the plain-table import takes the priority from the list order.  The
\* i-th spell table of the text becomes the entry with priority i, whatever
\* priority is written in the table, so the imported priorities are 1..k,
\* also for a text whose written priorities have gaps.
C23_LuaPriorityFromOrder ==
    \A x \in LegalLuaInputs :
        (call.op = "from_lua" /\ call.args = << LuaText(x.spec, x.tables) >>)
        => /\ imported.status = "ok"
           /\ Len(imported.rotation.spells) = Len(x.tables)
           /\ \A i \in 1..Len(x.tables) :
                 /\ imported.rotation.spells[i].name = x.tables[i].name
                 /\ imported.rotation.spells[i].condition = x.tables[i].condition
                 /\ imported.rotation.spells[i].priority = i


\* The contents of the import model that have a defect: a text that is no
\* rotation, a missing field, a format_version that is absent or not 1.0, an
\* id or class and spec the catalog does not have, a spell name that is not
\* legal, a condition the validator rejects.
DefectiveSoe ==
    { SoeText(x.id, x.tuples) : x \in SoeInputs \ LegalSoeInputs }
    \cup { NoRotationText }
DefectiveLua ==
    { LuaText(x.spec, x.tables) : x \in LuaInputs \ LegalLuaInputs }
    \cup { NoRotationText }
DefectiveJson ==
    JsonContents \ { to_json(Written(x.spec, x.tables)) : x \in LegalLuaInputs }
DefectiveXml ==
    XmlContents \ { to_xml(Written(x.spec, x.tables)) : x \in LegalLuaInputs }

\* The format name the error of an adapter carries.
FormatName ==
    [ op \in {"from_soe", "from_json", "from_xml", "from_lua"} |->
        IF op = "from_soe" THEN "SOE" ELSE IF op = "from_json" THEN "JSON"
        ELSE IF op = "from_xml" THEN "XML" ELSE "Lua" ]

\* C24: every failure of an import, in each of the four adapters, comes out
\* as the one normalized error with the format name and the cause, never as
\* another exception; a text that is no rotation, a missing field, a JSON
\* format_version that is absent or not '1.0', an unresolvable spec id or
\* class and spec, an unknown spell name and an invalid condition each make
\* the import fail so.
C24_ImportFailuresNormalized ==
    (call.op \in DOMAIN FormatName /\ call.args # <<>>)
    => /\ imported.status \in {"ok", "error"}
       /\ imported.status = "error"
            => imported.format = FormatName[call.op] /\ imported.cause # ""
       /\ call.op = "from_soe" /\ call.args[1] \in DefectiveSoe
            => imported.status = "error"
       /\ call.op = "from_lua" /\ call.args[1] \in DefectiveLua
            => imported.status = "error"
       /\ call.op = "from_json" /\ call.args[1] \in DefectiveJson
            => imported.status = "error"
       /\ call.op = "from_xml" /\ call.args[1] \in DefectiveXml
            => imported.status = "error"

\* An import of a JSON object without format_version has failed.
C24_Witness ==
    /\ call.op = "from_json" /\ call.args # <<>>
    /\ call.args[1] \in DefectiveJson
    /\ "malformed" \notin DOMAIN call.args[1]
    /\ "format_version" \notin DOMAIN call.args[1]
    /\ imported.status = "error"


\* C25: parse_condition returns one component for each clause, in the order
\* of the text.  For k clauses joined by k-1 logical operators there are k
\* components; component i < k has the i-th joining operator and the last
\* has none; a clause with a leading "!" gives not = true and the path
\* without the "!"; a clause "path OP number" gives the path, the operator
\* and the value; any other clause gives its text, with operator and value
\* null.
C25_OneComponentPerClause ==
    call.op = "parse_condition"
    => /\ Len(call.components) = Len(call.written.clauses)
       /\ \A i \in 1..Len(call.written.clauses) :
            /\ call.components[i].not = call.written.clauses[i].not
            /\ call.components[i].condition = call.written.clauses[i].condition
            /\ call.components[i].operator = call.written.clauses[i].operator
            /\ call.components[i].value = call.written.clauses[i].value
            /\ call.components[i].logical_operator
                 = IF i < Len(call.written.clauses)
                   THEN call.written.joins[i] ELSE None


\* The kinds of the messages in a list
Kinds(messages) == { messages[i].kind : i \in 1..Len(messages) }

\* The names of the entries, in list order
EntryNames(spells) == [i \in 1..Len(spells) |-> spells[i].name]

\* The names the "Invalid condition" errors are about, in the order of the errors
RejectedNames(errors) ==
    LET IsRejection(m) == m.kind = "Invalid condition for"
        rejections == SelectSeq(errors, IsRejection)
    IN [i \in 1..Len(rejections) |-> rejections[i].detail[1]]

\* C26: validate_rotation returns is_valid = true exactly when the errors
\* list is empty; there is an error exactly for a critical spell of the
\* class/spec that no entry has, for an entry with an empty condition and for
\* each entry whose condition validate_condition rejects, and for nothing else;
\* duplicate names, no defensive spell and no cooldown spell give warnings
\* and leave is_valid as the three errors decide it; the Rotation is after
\* the call what it was before.
C26_ValidateRotation ==
    call.op = "validate_rotation" =>
      LET r == call.args[1]
          res == call.result
          names == { r.spells[i].name : i \in 1..Len(r.spells) }
          missing == Elements(CRITICAL_SPELLS[TheClass][TheSpec]) \ names # {}
          empty == \E i \in 1..Len(r.spells) : r.spells[i].condition = <<>>
          Rejected(e) == ~validate_condition(e.condition).is_valid
      IN /\ res.is_valid <=> res.errors = <<>>
         /\ "Missing critical spells" \in Kinds(res.errors) <=> missing
         /\ "Empty conditions found for" \in Kinds(res.errors) <=> empty
         /\ RejectedNames(res.errors) = EntryNames(SelectSeq(r.spells, Rejected))
         /\ Kinds(res.errors) \subseteq
               { "Missing critical spells", "Empty conditions found for",
                 "Invalid condition for" }
         /\ res.is_valid <=> (~missing /\ ~empty /\ SelectSeq(r.spells, Rejected) = <<>>)
         /\ "Duplicate spells found" \in Kinds(res.warnings)
               <=> \E i, j \in 1..Len(r.spells) :
                      i # j /\ r.spells[i].name = r.spells[j].name
         /\ "No defensive abilities in rotation" \in Kinds(res.warnings)
               <=> names \cap Elements(DEFENSIVE_SPELLS[TheClass]) = {}
         /\ "No cooldown abilities in rotation" \in Kinds(res.warnings)
               <=> names \cap Elements(COOLDOWN_SPELLS[TheClass]) = {}
         /\ rotation = r

\* A valid Rotation with a duplicated name and neither a defensive nor a
\* cooldown spell: three warnings, no error.
C26_Witness ==
    /\ call.op = "validate_rotation"
    /\ call.result.is_valid
    /\ Len(call.result.warnings) = 3


\* The entries of a list without their priorities
Held(spells) == { [spells[i] EXCEPT !.priority = 0] : i \in 1..Len(spells) }

\* C27: after every add_spell, remove_spell or move_spell with in-range
\* arguments the priorities are exactly 1..N in list order, and the entries
\* are those held before: with the added one after an add_spell that
\* returned, without the removed one after a remove_spell that returned
\* True, the same after any other call; no entry is held twice.
C27_InRangeCallsKeepInvariant ==
    [][ /\ PriorityInvariant(rotation'.spells)
        /\ Cardinality(Held(rotation'.spells)) = Len(rotation'.spells)
        /\ IF call'.op = "add_spell" /\ call'.result = "ok"
           THEN /\ Len(rotation'.spells) = Len(rotation.spells) + 1
                /\ Held(rotation.spells) \subseteq Held(rotation'.spells)
                /\ \E e \in Held(rotation'.spells) \ Held(rotation.spells) :
                      /\ e.name = call'.args.spell_name
                      /\ e.condition = call'.args.condition
           ELSE IF call'.op = "remove_spell" /\ call'.result = "True"
           THEN /\ Len(rotation'.spells) = Len(rotation.spells) - 1
                /\ Held(rotation'.spells) \subseteq Held(rotation.spells)
                /\ \E i \in 1..Len(rotation.spells) :
                      /\ rotation.spells[i].priority = call'.args.priority
                      /\ [rotation.spells[i] EXCEPT !.priority = 0]
                            \notin Held(rotation'.spells)
           ELSE Held(rotation'.spells) = Held(rotation.spells) ]_vars

\* A move_spell between two different priorities of a full list has returned
\* True, after an add_spell at a priority an entry held and a remove_spell.
C27_Witness ==
    /\ call.op = "move_spell"
    /\ call.result = "True"
    /\ call.args.from_priority # call.args.to_priority
    /\ Len(rotation.spells) = MaxSpells
    /\ \E i \in 1..Len(rotation.spells) : rotation.spells[i].obj # i


\* C28: the Rotation a successful from_json or from_xml returns has
\* priorities exactly 1..N in list order, whatever priorities the text
\* wrote (duplicated, starting above 1, with gaps, out of order).
C28_ImportedPriorityInvariant ==
    (call.op \in {"from_json", "from_xml"} /\ imported.status = "ok")
        => PriorityInvariant(imported.rotation.spells)


\* C29: add_not_operator called on an empty builder or directly after a
\* logical operator appends the "!" part, and no "!" part stands directly
\* after a clause part, where it would come between two clauses that no
\* logical operator joins.
C29_NegationBeforeNextClause ==
    /\ ( /\ call.op = "add_not_operator"
         /\ \/ call.before = <<>>
            \/ call.before[Len(call.before)] \in LogicalArgs )
       => condition_parts = Append(call.before, <<"!">>)
    /\ \A i \in 2..Len(condition_parts) :
          condition_parts[i] = <<"!">> => ~IsClausePart(condition_parts[i - 1])

\* C30 as stated: remove_last directly after any add call gives back the
\* parts and the text the builder had before the add call; remove_last on an
\* empty builder and clear on any builder leave it empty with the text ''.
C30_UndoLastInvertsEveryAdd ==
    /\ (call.op = "remove_last" /\ call.undoes # None)
          => /\ condition_parts = call.undoes
             /\ get_condition(condition_parts) = get_condition(call.undoes)
    /\ (call.op = "remove_last" /\ call.before = <<>>)
          => condition_parts = <<>> /\ get_condition(condition_parts) = <<>>
    /\ call.op = "clear"
          => condition_parts = <<>> /\ get_condition(condition_parts) = <<>>

\* C30 amended: remove_last directly after an add call that appended a part
\* (add_condition_part, add_logical_operator, or an add_not_operator that
\* appended the "!") gives back the parts and the text the builder had
\* before the add call; remove_last on an empty builder and clear on any
\* builder leave it empty with the text ''.
C30_UndoLastInvertsAppendingAdd ==
    /\ (call.op = "remove_last" /\ call.undoes # None
        /\ Len(call.before) = Len(call.undoes) + 1)
          => /\ condition_parts = call.undoes
             /\ get_condition(condition_parts) = get_condition(call.undoes)
    /\ (call.op = "remove_last" /\ call.before = <<>>)
          => condition_parts = <<>> /\ get_condition(condition_parts) = <<>>
    /\ call.op = "clear"
          => condition_parts = <<>> /\ get_condition(condition_parts) = <<>>

\* remove_last directly after an add_not_operator that appended the "!" to
\* two parts.
C30_Witness ==
    /\ call.op = "remove_last"
    /\ call.undoes # None
    /\ Len(call.undoes) = 2
    /\ call.before = Append(call.undoes, <<"!">>)

====
